---- MODULE Spec2Model ----
(***************************************************************************)
(* The speech-synchronization engine of the translation client:            *)
(* src/src/TranslationState.ts (class TranslationState and its helpers).   *)
(*                                                                         *)
(* Conventions.  Array indices passed to and returned by the engine are    *)
(* the 0-based indices of the TypeScript code; a TLA+ sequence stores      *)
(* array position i at element i + 1.  A text (string) is a sequence of    *)
(* one-character strings, so that text can be split between characters.    *)
(* Utterance.isFromSelf / createdAt / updatedAt are written by             *)
(* updateUtterances but read by nothing in the engine and are not part of  *)
(* any display; they are left out of the Utterance record.                 *)
(***************************************************************************)
EXTENDS Integers, Sequences, FiniteSets, TLC

\* ------------------------------------------------------------------------
\* Bounds of the model
\* ------------------------------------------------------------------------
\* largest utterance_idx the server sends (indices 0..MaxIdx, gaps allowed)
MaxIdx == 2
\* most entries of the two ledgers together
MaxEntries == 3
\* most words (complete + partial) stored in the two ledgers together
MaxWords == 2
\* most scheduled boundary updates alive at the same time
MaxPending == 1
\* most one-shot ready listeners registered between two ready messages
MaxReadyOnce == 1
\* the wall clock (Date.now(), in ms) advances MaxTicks times by one second
MaxTicks == 1

\* most connect() calls that get past the "Already connected" test
MaxConnects == 2
\* most reset() calls
MaxResets == 2

\* ------------------------------------------------------------------------
\* Values
\* ------------------------------------------------------------------------
Null == "null"

\* "time * 1000": a speech_delimiter counts seconds, the clock milliseconds
MsPerSecond == 1000
\* Date.now() at construction: later than any deadline counted from
\* resetTime = 0
StartNow == 2 * MsPerSecond

\* makeWord("a"), makeWord("b"), makeWord("world")
WordA == [word |-> <<"a">>]
WordB == [word |-> <<"b">>]
World == [word |-> <<"w", "o", "r", "l", "d">>]

English == [short_code |-> "en", name |-> "English"]
Spanish == [short_code |-> "es", name |-> "Spanish"]
LanguageLists == {<<English>>, <<English, Spanish>>}

\* SanasTranslationClientOptions: is there an apiKey or an accessToken
WithCredentials == [credentials |-> TRUE]
OptionSets == {[credentials |-> b] : b \in BOOLEAN}

ReadyIds == {"r1", Null}
ReadyListeners == {"onceCb"}

\* seconds carried by a speech_delimiter message
DelimiterTimes == {0, 1}

Delimiter(u, w, c) == [utterance_idx |-> u, word_idx |-> w, char_idx |-> c]
\* the <<transcription, translation>> targets a speech_delimiter carries
DelimiterTargets ==
  {<<Delimiter(0, 0, 0), Delimiter(0, 0, 0)>>,
   <<Delimiter(0, 1, 0), Delimiter(0, 0, 0)>>,
   <<Delimiter(2, 0, 3), Delimiter(2, 0, 3)>>}

\* the word lists a fragment carries as complete, and as partial
WordLists == {<<>>, <<WordA>>, <<WordB>>, <<WordA, WordB>>}
PartialLists == {<<>>, <<WordB>>}
\* the word lists of a fragment that finalizes at most one word
PlainLists == {<<>>, <<WordA>>}
\* the word list of a fragment that finalizes the one word "world"
WorldLists == {<<World>>}

Min(S) == CHOOSE x \in S : \A y \in S : x <= y
Max(S) == CHOOSE x \in S : \A y \in S : x >= y

\* ------------------------------------------------------------------------
\* TranslationState.ts, module-level helpers
\* ------------------------------------------------------------------------
ZERO_POSITION == [utteranceIdx |-> 0, wordIdx |-> 0, charIdx |-> 0]

\* updateUtterances that never merges: every fragment makes an entry
updateUtterances_AlwaysAppend(prev, complete, partial, utteranceIdx) ==
  Append(prev, [complete |-> complete, partial |-> partial, idx |-> utteranceIdx])

\* updateUtterances with the merged words put in front of the stored ones
updateUtterances_Prepend(prev, complete, partial, utteranceIdx) ==
  IF Len(prev) > 0 /\ prev[Len(prev)].idx = utteranceIdx
  THEN Append(SubSeq(prev, 1, Len(prev) - 1),
              [prev[Len(prev)] EXCEPT !.complete = complete \o @, !.partial = partial])
  ELSE Append(prev, [complete |-> complete, partial |-> partial, idx |-> utteranceIdx])

updateUtterances(prev, complete, partial, utteranceIdx) ==
  LET utterance == [complete |-> complete, partial |-> partial, idx |-> utteranceIdx]
  IN IF Len(prev) > 0 /\ prev[Len(prev)].idx = utterance.idx
     THEN LET lastUtterance == prev[Len(prev)]
              merged == [lastUtterance EXCEPT
                           !.complete = lastUtterance.complete \o utterance.complete,
                           !.partial = utterance.partial]
          IN Append(SubSeq(prev, 1, Len(prev) - 1), merged)
     ELSE Append(prev, utterance)

\* An optional value (T | undefined) is the empty sequence for undefined and
\* the one-element sequence <<x>> for the value x.
Undefined == <<>>
Some(x) == <<x>>

\* the word at 0-based wordIdx of complete followed by partial, if any
getWord(utterance, wordIdx) ==
  IF wordIdx < Len(utterance.complete)
  THEN Some(utterance.complete[wordIdx + 1])
  ELSE LET partialIdx == wordIdx - Len(utterance.complete)
       IN IF partialIdx < Len(utterance.partial)
          THEN Some(utterance.partial[partialIdx + 1])
          ELSE Undefined

\* positionLessThan that also holds of equal positions
positionLessThan_OrEqual(a, b) ==
  IF a.utteranceIdx # b.utteranceIdx THEN a.utteranceIdx < b.utteranceIdx
  ELSE IF a.wordIdx # b.wordIdx THEN a.wordIdx < b.wordIdx
  ELSE a.charIdx <= b.charIdx

positionLessThan(a, b) ==
  IF a.utteranceIdx # b.utteranceIdx THEN a.utteranceIdx < b.utteranceIdx
  ELSE IF a.wordIdx # b.wordIdx THEN a.wordIdx < b.wordIdx
  ELSE a.charIdx < b.charIdx

\* the inner loop that puts the character at the boundary itself in neither
\* string
RECURSIVE charLoop_SkipBoundary(_, _, _, _, _, _)
charLoop_SkipBoundary(word, arrayIdx, wordIdx, charIdx, boundary, text) ==
  IF charIdx >= Len(word.word) THEN text
  ELSE LET pos == [utteranceIdx |-> arrayIdx, wordIdx |-> wordIdx, charIdx |-> charIdx]
       IN charLoop_SkipBoundary(word, arrayIdx, wordIdx, charIdx + 1, boundary,
                   IF positionLessThan(pos, boundary)
                   THEN [text EXCEPT !.spokenText = Append(@, word.word[charIdx + 1])]
                   ELSE IF pos = boundary THEN text
                   ELSE [text EXCEPT !.unspokenText = Append(@, word.word[charIdx + 1])])

\* the inner loop of computeSpeechDividedText, from character charIdx on;
\* text is the pair of strings built so far
RECURSIVE charLoop(_, _, _, _, _, _)
charLoop(word, arrayIdx, wordIdx, charIdx, boundary, text) ==
  IF charIdx >= Len(word.word) THEN text
  ELSE LET pos == [utteranceIdx |-> arrayIdx, wordIdx |-> wordIdx, charIdx |-> charIdx]
       IN charLoop(word, arrayIdx, wordIdx, charIdx + 1, boundary,
                   IF positionLessThan(pos, boundary)
                   THEN [text EXCEPT !.spokenText = Append(@, word.word[charIdx + 1])]
                   ELSE [text EXCEPT !.unspokenText = Append(@, word.word[charIdx + 1])])

\* the outer loop of computeSpeechDividedText, from word wordIdx on
RECURSIVE wordLoop(_, _, _, _, _)
wordLoop(utterance, arrayIdx, wordIdx, boundary, text) ==
  IF wordIdx >= Len(utterance.complete) + Len(utterance.partial) THEN text
  ELSE LET word == getWord(utterance, wordIdx)
       IN wordLoop(utterance, arrayIdx, wordIdx + 1, boundary,
                   IF word = Undefined THEN text
                   ELSE charLoop(word[1], arrayIdx, wordIdx, 0, boundary, text))

computeSpeechDividedText(utterance, arrayIdx, boundary) ==
  wordLoop(utterance, arrayIdx, 0, boundary, [spokenText |-> <<>>, unspokenText |-> <<>>])

\* utterance is an optional Utterance
buildUtteranceStreamDisplay(utterance, arrayIdx, boundary) ==
  IF utterance = Undefined
  THEN [spokenText |-> <<>>, unspokenText |-> <<>>, complete |-> <<>>, partial |-> <<>>]
  ELSE LET divided == computeSpeechDividedText(utterance[1], arrayIdx, boundary)
       IN [spokenText |-> divided.spokenText,
           unspokenText |-> divided.unspokenText,
           complete |-> utterance[1].complete,
           partial |-> utterance[1].partial]

\* Array.prototype.findIndex over the idx field: 0-based index, -1 if none
findIndex(utterances, utteranceIdx) ==
  LET hits == {i \in 1..Len(utterances) : utterances[i].idx = utteranceIdx}
  IN IF hits = {} THEN -1 ELSE Min(hits) - 1

\* ------------------------------------------------------------------------
\* State
\* ------------------------------------------------------------------------
VARIABLES
  transcriptions,                \* TranslationState.transcriptions: Utterance[]
  translations,                  \* TranslationState.translations: Utterance[]
  transcriptionsSpeechBoundary,  \* CharacterPosition
  translationsSpeechBoundary,    \* CharacterPosition
  identifiedLanguages,           \* TranslationState._identifiedLanguages
  resetTime,                     \* TranslationState.resetTime (ms)
  pendingTimeouts,               \* TranslationState.pendingTimeouts: timer ids
  readyOnceCallbacks,            \* TranslationState.readyOnceCallbacks
  timers,                        \* the runtime's table of armed setTimeout timers
  now,                           \* Date.now() (ms)
  calls,                         \* the callbacks invoked by the last step, in order
  lastOp,                        \* the operation the last step performed
  run,                           \* history: the current run of same-index transcription fragments
  awaiting,                      \* history: the listeners registered with onReadyOnce since the last ready
  torn                           \* history: how many of them, the first of awaiting, were registered before the last destroy()

engineVars == <<transcriptions, translations, transcriptionsSpeechBoundary,
                translationsSpeechBoundary, identifiedLanguages, resetTime,
                pendingTimeouts, readyOnceCallbacks>>

\* SanasTranslationClient, the browser objects it holds, and its promises
VARIABLES
  options,          \* SanasTranslationClient.options: are credentials configured
  peerConnection,   \* RTCPeerConnection | null: the one made by the connect() call at that position of connects
  dataChannel,      \* RTCDataChannel | null: likewise
  localStream,      \* MediaStream | null: likewise
  audioTrack,       \* MediaStreamTrack | null: likewise
  ownsAudioTrack,
  messageQueue,     \* string[]: serialized messages
  sessionId,        \* _sessionId
  connectionState,  \* _connectionState
  error,            \* _error
  utteranceCallbacks,        \* Set: the callbacks in insertion order
  languagesCallbacks,        \* Set: likewise
  connectionStateCallbacks,  \* Set: likewise
  errorCallbacks,            \* Set: likewise
  pendingResets,    \* Map: the keys in insertion order (the value of a key is its promise)
  resetIdCounter,   \* module-level counter
  connects,         \* the connect() calls past the "Already connected" test, each with the RTCPeerConnection and RTCDataChannel it made and its closure
  liveTracks,       \* the connect() calls whose audio track (captured or supplied) is not stopped
  promises,         \* the promises returned by reset(), in call order
  settled,          \* history: the reset promises settled, in settling order
  sent,             \* history: what dc.send was given, in order
  discarded,        \* history: the queued messages disconnect() dropped
  emitted,          \* the notifications to the client's listeners in the last step
  invoked,          \* the calls of registered callbacks in the last step, in order
  subscribed,       \* history: the <<method, callback>> subscribed and not unsubscribed since
  unsubscribed      \* history: the <<method, callback>> unsubscribed and not subscribed since

clientVars == <<options, peerConnection, dataChannel, localStream, audioTrack,
                ownsAudioTrack, messageQueue, sessionId, connectionState, error,
                pendingResets, resetIdCounter, utteranceCallbacks,
                languagesCallbacks, connectionStateCallbacks, errorCallbacks>>
browserVars == <<connects, liveTracks, promises>>
clientHistory == <<settled, sent, discarded, emitted, invoked, subscribed,
                  unsubscribed>>

vars == <<engineVars, timers, now, calls, lastOp, run, awaiting, torn,
          clientVars, browserVars, clientHistory>>

\* The engine and what its handlers reach (timer table, callback log) as one
\* value; a handler is a function from this value to the value it leaves.
Current ==
  [transcriptions |-> transcriptions,
   translations |-> translations,
   transcriptionsSpeechBoundary |-> transcriptionsSpeechBoundary,
   translationsSpeechBoundary |-> translationsSpeechBoundary,
   identifiedLanguages |-> identifiedLanguages,
   resetTime |-> resetTime,
   pendingTimeouts |-> pendingTimeouts,
   readyOnceCallbacks |-> readyOnceCallbacks,
   timers |-> timers,
   calls |-> <<>>]

\* new TranslationState(callbacks)
Constructed ==
  [transcriptions |-> <<>>,
   translations |-> <<>>,
   transcriptionsSpeechBoundary |-> ZERO_POSITION,
   translationsSpeechBoundary |-> ZERO_POSITION,
   identifiedLanguages |-> <<>>,
   resetTime |-> 0,
   pendingTimeouts |-> <<>>,
   readyOnceCallbacks |-> <<>>,
   timers |-> <<>>,
   calls |-> <<>>]

\* ------------------------------------------------------------------------
\* The runtime's timers
\* ------------------------------------------------------------------------
\* The table lists the armed timers in the order setTimeout armed them.  A
\* timer handle is a positive integer that no armed timer has and that the
\* engine does not hold.
newTimerId(s) ==
  LET used == {s.timers[i].id : i \in 1..Len(s.timers)}
                \cup {s.pendingTimeouts[i] : i \in 1..Len(s.pendingTimeouts)}
  IN Min({id \in 1..(Cardinality(used) + 1) : id \notin used})

clearTimeout(timerTable, id) == SelectSeq(timerTable, LAMBDA t : t.id # id)

\* clearTimeout for each handle in ids
RECURSIVE clearTimeouts(_, _)
clearTimeouts(timerTable, ids) ==
  IF ids = <<>> THEN timerTable
  ELSE clearTimeouts(clearTimeout(timerTable, Head(ids)), Tail(ids))

\* the positions of the armed timers the runtime runs next: deadline passed,
\* earliest deadline first, then the one armed first
NextDue(timerTable) ==
  {i \in 1..Len(timerTable) :
     /\ timerTable[i].due <= now
     /\ \A j \in 1..Len(timerTable) :
          \/ timerTable[j].due > timerTable[i].due
          \/ (timerTable[j].due = timerTable[i].due /\ j >= i)}

\* ------------------------------------------------------------------------
\* class TranslationState
\* ------------------------------------------------------------------------
\* findTranslationForUtterance taking the index as an array position
findTranslationForUtterance_ByPosition(s, utteranceIdx) ==
  IF utteranceIdx < Len(s.translations)
  THEN Some([utterance |-> s.translations[utteranceIdx + 1], arrayIdx |-> utteranceIdx])
  ELSE Undefined

findTranslationForUtterance(s, utteranceIdx) ==
  LET arrayIdx == findIndex(s.translations, utteranceIdx)
  IN IF arrayIdx = -1 THEN Undefined
     ELSE Some([utterance |-> s.translations[arrayIdx + 1], arrayIdx |-> arrayIdx])

findArrayIndexByUtteranceIdx(utterances, utteranceIdx) ==
  findIndex(utterances, utteranceIdx)

\* getUtteranceDisplay reading the last entry for an index past the end
getUtteranceDisplay_Clamped(s, index) ==
  LET transcription == IF index >= 0 /\ s.transcriptions # <<>>
                       THEN Some(s.transcriptions[Min({index + 1, Len(s.transcriptions)})])
                       ELSE Undefined
      translation == findTranslationForUtterance(
                       s, IF transcription = Undefined THEN index ELSE transcription[1].idx)
  IN [transcription |->
        buildUtteranceStreamDisplay(transcription, index, s.transcriptionsSpeechBoundary),
      translation |->
        buildUtteranceStreamDisplay(
          IF translation = Undefined THEN Undefined ELSE Some(translation[1].utterance),
          IF translation = Undefined THEN index ELSE translation[1].arrayIdx,
          s.translationsSpeechBoundary)]

getUtteranceDisplay(s, index) ==
  LET transcription == IF index >= 0 /\ index < Len(s.transcriptions)
                       THEN Some(s.transcriptions[index + 1]) ELSE Undefined
      translation == findTranslationForUtterance(
                       s, IF transcription = Undefined THEN index ELSE transcription[1].idx)
  IN [transcription |->
        buildUtteranceStreamDisplay(transcription, index, s.transcriptionsSpeechBoundary),
      translation |->
        buildUtteranceStreamDisplay(
          IF translation = Undefined THEN Undefined ELSE Some(translation[1].utterance),
          IF translation = Undefined THEN index ELSE translation[1].arrayIdx,
          s.translationsSpeechBoundary)]

getState(s) ==
  [utterances |-> [i \in 1..Len(s.transcriptions) |-> getUtteranceDisplay(s, i - 1)],
   identifiedLanguages |-> s.identifiedLanguages]

onUtteranceChanged(s, index) ==
  [s EXCEPT !.calls = Append(@, [cb |-> "onUtteranceChanged",
                                 utterance |-> getUtteranceDisplay(s, index),
                                 index |-> index])]

notifyUtteranceByIdx(s, utteranceIdx) ==
  LET arrayIdx == findArrayIndexByUtteranceIdx(s.transcriptions, utteranceIdx)
  IN IF arrayIdx # -1 THEN onUtteranceChanged(s, arrayIdx) ELSE s

\* the loop of notifyAffectedUtterances, from array index i on
RECURSIVE notifyFrom(_, _, _)
notifyFrom(s, i, maxIdx) ==
  IF i <= maxIdx /\ i < Len(s.transcriptions)
  THEN notifyFrom(onUtteranceChanged(s, i), i + 1, maxIdx)
  ELSE s

notifyAffectedUtterances(s, oldTransBoundary, newTransBoundary, oldTranslBoundary, newTranslBoundary) ==
  LET idxs == {oldTransBoundary.utteranceIdx, newTransBoundary.utteranceIdx,
               oldTranslBoundary.utteranceIdx, newTranslBoundary.utteranceIdx}
  IN notifyFrom(s, Min(idxs), Max(idxs))

\* resetReady that leaves the translation ledger alone
resetReady_KeepTranslations(s, ready) ==
  [s EXCEPT
     !.timers = clearTimeouts(@, s.pendingTimeouts),
     !.pendingTimeouts = <<>>,
     !.resetTime = now,
     !.transcriptions = <<>>,
     !.transcriptionsSpeechBoundary = ZERO_POSITION,
     !.translationsSpeechBoundary = ZERO_POSITION,
     !.identifiedLanguages = IF ~ready THEN <<>> ELSE @]

\* resetReady that never clears the identified languages
resetReady_KeepLanguages(s, ready) ==
  [s EXCEPT
     !.timers = clearTimeouts(@, s.pendingTimeouts),
     !.pendingTimeouts = <<>>,
     !.resetTime = now,
     !.transcriptions = <<>>,
     !.translations = <<>>,
     !.transcriptionsSpeechBoundary = ZERO_POSITION,
     !.translationsSpeechBoundary = ZERO_POSITION]

\* resetReady that always clears the identified languages
resetReady_ClearLanguages(s, ready) ==
  [s EXCEPT
     !.timers = clearTimeouts(@, s.pendingTimeouts),
     !.pendingTimeouts = <<>>,
     !.resetTime = now,
     !.transcriptions = <<>>,
     !.translations = <<>>,
     !.transcriptionsSpeechBoundary = ZERO_POSITION,
     !.translationsSpeechBoundary = ZERO_POSITION,
     !.identifiedLanguages = <<>>]

\* resetReady that forgets its timers without calling clearTimeout
resetReady_KeepTimers(s, ready) ==
  [s EXCEPT
     !.pendingTimeouts = <<>>,
     !.resetTime = now,
     !.transcriptions = <<>>,
     !.translations = <<>>,
     !.transcriptionsSpeechBoundary = ZERO_POSITION,
     !.translationsSpeechBoundary = ZERO_POSITION,
     !.identifiedLanguages = IF ~ready THEN <<>> ELSE @]

resetReady(s, ready) ==
  LET cleared ==
        [s EXCEPT
           !.timers = clearTimeouts(@, s.pendingTimeouts),
           !.pendingTimeouts = <<>>,
           !.resetTime = now,
           !.transcriptions = <<>>,
           !.translations = <<>>,
           !.transcriptionsSpeechBoundary = ZERO_POSITION,
           !.translationsSpeechBoundary = ZERO_POSITION]
  IN IF ~ready THEN [cleared EXCEPT !.identifiedLanguages = <<>>] ELSE cleared

destroy_KeepTimers(s) ==
  [s EXCEPT
     !.pendingTimeouts = <<>>,
     !.readyOnceCallbacks = <<>>]

destroy(s) ==
  [s EXCEPT
     !.timers = clearTimeouts(@, s.pendingTimeouts),
     !.pendingTimeouts = <<>>,
     !.readyOnceCallbacks = <<>>]

onReadyOnce(s, callback) ==
  [s EXCEPT !.readyOnceCallbacks = Append(@, callback)]

\* case "transcription"
handleTranscription(s, message) ==
  LET complete == message.transcription.complete
      partial == message.transcription.partial
      utteranceIdx == message.transcription.utterance_idx
      updated == [s EXCEPT !.transcriptions =
                    updateUtterances(s.transcriptions, complete, partial, utteranceIdx)]
  IN notifyUtteranceByIdx(updated, utteranceIdx)

\* case "translation" without the test of complete.length
handleTranslation_Unguarded(s, message) ==
  notifyUtteranceByIdx(
    [s EXCEPT !.translations =
       updateUtterances(s.translations, message.translation.complete,
                        message.translation.partial, message.translation.utterance_idx)],
    message.translation.utterance_idx)

\* case "translation"
handleTranslation(s, message) ==
  LET complete == message.translation.complete
      partial == message.translation.partial
      utteranceIdx == message.translation.utterance_idx
  IN IF Len(complete) > 0
     THEN LET updated == [s EXCEPT !.translations =
                            updateUtterances(s.translations, complete, partial, utteranceIdx)]
          IN notifyUtteranceByIdx(updated, utteranceIdx)
     ELSE s

\* case "ready" that fires the one-time listeners without clearing them
handleReady_KeepListeners(s, message) ==
  LET reset == resetReady(s, TRUE)
      readyOnce == reset.readyOnceCallbacks
  IN [reset EXCEPT
        !.calls = (@ \o <<[cb |-> "onReady", id |-> message.ready.id]>>)
                  \o [i \in 1..Len(readyOnce) |->
                        [cb |-> "readyOnce", listener |-> readyOnce[i],
                         id |-> message.ready.id]]]

\* case "ready"
handleReady(s, message) ==
  LET reset == resetReady(s, TRUE)
      readyOnce == reset.readyOnceCallbacks
  IN [reset EXCEPT
        !.readyOnceCallbacks = <<>>,
        !.calls = (@ \o <<[cb |-> "onReady", id |-> message.ready.id]>>)
                  \o [i \in 1..Len(readyOnce) |->
                        [cb |-> "readyOnce", listener |-> readyOnce[i],
                         id |-> message.ready.id]]]

\* the timeout callback notifying before the translation boundary is replaced
timeoutCallback_NotifyBetween(s, timer) ==
  LET oldTransBoundary == s.transcriptionsSpeechBoundary
      oldTranslBoundary == s.translationsSpeechBoundary
      newTranslBoundary == [utteranceIdx |-> timer.translation.utterance_idx,
                            wordIdx |-> timer.translation.word_idx,
                            charIdx |-> timer.translation.char_idx]
      moved == [s EXCEPT
                  !.transcriptionsSpeechBoundary =
                     [utteranceIdx |-> timer.transcription.utterance_idx,
                      wordIdx |-> timer.transcription.word_idx,
                      charIdx |-> timer.transcription.char_idx],
                  !.pendingTimeouts = SelectSeq(@, LAMBDA id : id # timer.id)]
      notified == notifyAffectedUtterances(moved, oldTransBoundary,
                                           moved.transcriptionsSpeechBoundary,
                                           oldTranslBoundary, newTranslBoundary)
  IN [notified EXCEPT !.translationsSpeechBoundary = newTranslBoundary]

\* the function passed to setTimeout by case "speech_delimiter"; timer is the
\* table entry of the timer that fires (its id is timeoutId)
timeoutCallback(s, timer) ==
  LET oldTransBoundary == s.transcriptionsSpeechBoundary
      oldTranslBoundary == s.translationsSpeechBoundary
      moved == [s EXCEPT
                  !.transcriptionsSpeechBoundary =
                     [utteranceIdx |-> timer.transcription.utterance_idx,
                      wordIdx |-> timer.transcription.word_idx,
                      charIdx |-> timer.transcription.char_idx],
                  !.translationsSpeechBoundary =
                     [utteranceIdx |-> timer.translation.utterance_idx,
                      wordIdx |-> timer.translation.word_idx,
                      charIdx |-> timer.translation.char_idx],
                  !.pendingTimeouts = SelectSeq(@, LAMBDA id : id # timer.id)]
  IN notifyAffectedUtterances(moved, oldTransBoundary,
                              moved.transcriptionsSpeechBoundary,
                              oldTranslBoundary,
                              moved.translationsSpeechBoundary)

\* case "speech_delimiter"
handleSpeechDelimiter(s, message) ==
  LET transcription == message.speech_delimiter.transcription
      translation == message.speech_delimiter.translation
      time == message.speech_delimiter.time
      targetTime == s.resetTime + time * MsPerSecond
      currentTime == now
      delay == Max({0, targetTime - currentTime})
      timeoutId == newTimerId(s)
  IN [s EXCEPT
        !.timers = Append(@, [id |-> timeoutId, due |-> currentTime + delay,
                              transcription |-> transcription,
                              translation |-> translation, stale |-> FALSE]),
        !.pendingTimeouts = Append(@, timeoutId)]

\* case "languages"
handleLanguages(s, message) ==
  LET stored == [s EXCEPT !.identifiedLanguages = message.languages.languages]
  IN [stored EXCEPT !.calls = Append(@, [cb |-> "onLanguagesChanged",
                                         languages |-> stored.identifiedLanguages])]

handleMessage(s, message) ==
  CASE message.type = "transcription" -> handleTranscription(s, message)
    [] message.type = "translation" -> handleTranslation(s, message)
    [] message.type = "ready" -> handleReady(s, message)
    [] message.type = "speech_delimiter" -> handleSpeechDelimiter(s, message)
    [] message.type = "languages" -> handleLanguages(s, message)

\* ------------------------------------------------------------------------
\* Inputs
\* ------------------------------------------------------------------------
TranscriptionMessages(completes, partials) ==
  {[type |-> "transcription",
    transcription |-> [complete |-> c, partial |-> p, utterance_idx |-> i]] :
     c \in completes, p \in partials, i \in 0..MaxIdx}

TranslationMessages(completes, partials) ==
  {[type |-> "translation",
    translation |-> [complete |-> c, partial |-> p, utterance_idx |-> i]] :
     c \in completes, p \in partials, i \in 0..MaxIdx}

ReadyMessages == {[type |-> "ready", ready |-> [id |-> id]] : id \in ReadyIds}

SpeechDelimiterMessages ==
  {[type |-> "speech_delimiter",
    speech_delimiter |-> [time |-> t, transcription |-> d[1], translation |-> d[2]]] :
     t \in DelimiterTimes, d \in DelimiterTargets}

LanguagesMessages ==
  {[type |-> "languages", languages |-> [languages |-> l]] : l \in LanguageLists}

\* the ledgers have room for one more entry, or updateUtterances adds no
\* entry for utteranceIdx
FitsEntries(utterances, utteranceIdx) ==
  IF Len(transcriptions) + Len(translations) < MaxEntries THEN TRUE
  ELSE IF utterances = <<>> THEN FALSE
  ELSE utterances[Len(utterances)].idx = utteranceIdx

\* utteranceIdx is not smaller than the index of the last entry: the order a
\* server keeps that sends the fragments of a ledger in non-decreasing
\* utterance_idx order
ServerOrdered(utterances, utteranceIdx) ==
  IF utterances = <<>> THEN TRUE
  ELSE utterances[Len(utterances)].idx <= utteranceIdx

RECURSIVE WordCount(_)
WordCount(utterances) ==
  IF utterances = <<>> THEN 0
  ELSE Len(Head(utterances).complete) + Len(Head(utterances).partial)
       + WordCount(Tail(utterances))

\* the ledgers have room for the words of one more fragment
FitsWords(fragment) ==
  WordCount(transcriptions) + WordCount(translations)
    + Len(fragment.complete) + Len(fragment.partial) <= MaxWords

\* ------------------------------------------------------------------------
\* History
\* ------------------------------------------------------------------------
\* The run is the sequence of transcription fragments handled since the last
\* fragment with another index or the last reset: their index, their
\* complete lists concatenated, the partial list of the last one, whether it
\* has more than one fragment, the length of the ledger when it began, and
\* whether its index was new to the ledger when it began.
NoRun ==
  [idx |-> -1, complete |-> <<>>, partial |-> <<>>, merged |-> FALSE,
   base |-> 0, alone |-> TRUE]

\* the run after one more transcription fragment
RunAfter(fragment) ==
  IF run.idx = fragment.utterance_idx
  THEN [run EXCEPT !.complete = @ \o fragment.complete,
                   !.partial = fragment.partial,
                   !.merged = TRUE]
  ELSE [idx |-> fragment.utterance_idx, complete |-> fragment.complete,
        partial |-> fragment.partial, merged |-> FALSE,
        base |-> Len(transcriptions),
        alone |-> findIndex(transcriptions, fragment.utterance_idx) = -1]

\* the timers of timerTable, each marked as armed in an earlier epoch
MarkStale(timerTable) ==
  IF timerTable = <<>> THEN <<>>
  ELSE [i \in 1..Len(timerTable) |-> [timerTable[i] EXCEPT !.stale = TRUE]]

\* what a reset finds: which parts of the engine hold data
Pre(s) ==
  [transcriptions |-> s.transcriptions # <<>>,
   translations |-> s.translations # <<>>,
   boundaries |-> /\ s.transcriptionsSpeechBoundary # ZERO_POSITION
                  /\ s.translationsSpeechBoundary # ZERO_POSITION,
   languages |-> s.identifiedLanguages,
   pending |-> s.pendingTimeouts # <<>>]

\* ------------------------------------------------------------------------
\* SanasTranslationClient
\* ------------------------------------------------------------------------
\* The client, the browser objects its connect() calls made and the promises
\* it returned, as one value k; k.engine is its TranslationState.  A method
\* or an event handler is a function from this value to the value it leaves;
\* k.thrown is the message of the Error a method threw, if it threw.
CurrentClient ==
  [options |-> options,
   peerConnection |-> peerConnection,
   dataChannel |-> dataChannel,
   localStream |-> localStream,
   audioTrack |-> audioTrack,
   ownsAudioTrack |-> ownsAudioTrack,
   messageQueue |-> messageQueue,
   sessionId |-> sessionId,
   connectionState |-> connectionState,
   error |-> error,
   utteranceCallbacks |-> utteranceCallbacks,
   languagesCallbacks |-> languagesCallbacks,
   connectionStateCallbacks |-> connectionStateCallbacks,
   errorCallbacks |-> errorCallbacks,
   pendingResets |-> pendingResets,
   resetIdCounter |-> resetIdCounter,
   connects |-> connects,
   liveTracks |-> liveTracks,
   promises |-> promises,
   settled |-> settled,
   sent |-> sent,
   discarded |-> discarded,
   emitted |-> <<>>,
   invoked |-> <<>>,
   subscribed |-> subscribed,
   unsubscribed |-> unsubscribed,
   thrown |-> Null,
   engine |-> Current]

\* new SanasTranslationClient(opts); a handle that is null is Undefined
ConstructedClient(opts) ==
  [options |-> opts,
   peerConnection |-> Undefined,
   dataChannel |-> Undefined,
   localStream |-> Undefined,
   audioTrack |-> Undefined,
   ownsAudioTrack |-> FALSE,
   messageQueue |-> <<>>,
   sessionId |-> Null,
   connectionState |-> "disconnected",
   error |-> Null,
   utteranceCallbacks |-> <<>>,
   languagesCallbacks |-> <<>>,
   connectionStateCallbacks |-> <<>>,
   errorCallbacks |-> <<>>,
   pendingResets |-> <<>>,
   resetIdCounter |-> 0,
   connects |-> <<>>,
   liveTracks |-> {},
   promises |-> <<>>,
   settled |-> <<>>,
   sent |-> <<>>,
   discarded |-> <<>>,
   emitted |-> <<>>,
   invoked |-> <<>>,
   subscribed |-> {},
   unsubscribed |-> {},
   thrown |-> Null,
   engine |-> Constructed]

webrtcToConnectionState(state) ==
  CASE state \in {"new", "connecting"} -> "connecting"
    [] state = "connected" -> "connected"
    [] state \in {"disconnected", "closed", "failed"} -> "disconnected"

\* Set.prototype.add and Set.prototype.delete on a Set kept as the sequence of
\* its elements in insertion order
SetAdd(set, value) ==
  IF \E i \in 1..Len(set) : set[i] = value THEN set ELSE Append(set, value)

SetDelete(set, value) == SelectSeq(set, LAMBDA v : v # value)

\* for (const cb of callbacks) cb(...): event is what the callbacks are given
forEachCallback(k, callbacks, event) ==
  [k EXCEPT !.invoked = @ \o [i \in 1..Len(callbacks) |->
                                [callback |-> callbacks[i], event |-> event]]]

setConnectionState_Always(k, state) ==
  forEachCallback(
    [k EXCEPT !.connectionState = state,
              !.emitted = Append(@, [event |-> "connectionState", state |-> state])],
    k.connectionStateCallbacks, [event |-> "connectionState", state |-> state])

setConnectionState(k, state) ==
  IF k.connectionState # state
  THEN forEachCallback(
         [k EXCEPT !.connectionState = state,
                   !.emitted = Append(@, [event |-> "connectionState", state |-> state])],
         k.connectionStateCallbacks, [event |-> "connectionState", state |-> state])
  ELSE k

setError(k, message) ==
  forEachCallback(
    [k EXCEPT !.error = message,
              !.emitted = Append(@, [event |-> "error", error |-> message])],
    k.errorCallbacks, [event |-> "error", error |-> message])

\* the onUtteranceChanged and onLanguagesChanged callbacks the constructor
\* gives the engine
onUtteranceChanged_client(k, utterance, index) ==
  forEachCallback(k, k.utteranceCallbacks,
                  [event |-> "utterance", utterance |-> utterance, index |-> index])

onLanguagesChanged_client(k, languages) ==
  forEachCallback(k, k.languagesCallbacks,
                  [event |-> "languages", languages |-> languages])

\* the subscription methods, and the function each returns for callback
onUtterance(k, callback) ==
  [k EXCEPT !.utteranceCallbacks = SetAdd(@, callback)]

onLanguages(k, callback) ==
  [k EXCEPT !.languagesCallbacks = SetAdd(@, callback)]

onConnectionStateChange(k, callback) ==
  [k EXCEPT !.connectionStateCallbacks = SetAdd(@, callback)]

onError(k, callback) ==
  [k EXCEPT !.errorCallbacks = SetAdd(@, callback)]

\* the returned function emptying the Set
unsubscribe_Clear(k, method, callback) ==
  CASE method = "onUtterance" -> [k EXCEPT !.utteranceCallbacks = <<>>]
    [] method = "onLanguages" -> [k EXCEPT !.languagesCallbacks = <<>>]
    [] method = "onConnectionStateChange" -> [k EXCEPT !.connectionStateCallbacks = <<>>]
    [] method = "onError" -> [k EXCEPT !.errorCallbacks = <<>>]

unsubscribe(k, method, callback) ==
  CASE method = "onUtterance" ->
         [k EXCEPT !.utteranceCallbacks = SetDelete(@, callback)]
    [] method = "onLanguages" ->
         [k EXCEPT !.languagesCallbacks = SetDelete(@, callback)]
    [] method = "onConnectionStateChange" ->
         [k EXCEPT !.connectionStateCallbacks = SetDelete(@, callback)]
    [] method = "onError" ->
         [k EXCEPT !.errorCallbacks = SetDelete(@, callback)]

\* JSON.stringify of a reset message, of which the type and the id are kept
stringify(message) ==
  "{type:" \o message.type \o ",reset:{id:" \o message.reset.id \o "}}"

\* dataChannel.send(serialized): the history of what each channel was given
send(k, c, serialized) ==
  [k EXCEPT !.sent = Append(@, [channel |-> c, data |-> serialized])]

sendMessage(k, message) ==
  LET serialized == stringify(message)
  IN IF k.dataChannel # Undefined /\ k.connects[k.dataChannel[1]].channel = "open"
     THEN send(k, k.dataChannel[1], serialized)
     ELSE [k EXCEPT !.messageQueue = Append(@, serialized)]

\* `reset-${n}`
ResetId(n) == "reset-" \o ToString(n)

\* the message reset() builds for id
ResetMessage(id) == [type |-> "reset", reset |-> [id |-> id]]

\* resolve() or reject() of the promise reset() returned for id: a promise
\* that is settled stays as it is
settle(k, id, state, reason) ==
  LET i == CHOOSE j \in 1..Len(k.promises) : k.promises[j].id = id
  IN IF k.promises[i].state # "pending" THEN k
     ELSE [k EXCEPT !.promises[i].state = state,
                    !.promises[i].reason = reason,
                    !.settled = Append(@, id)]

\* the position of id among the keys of the Map, 0 if it is no key
KeyIndex(keys, id) ==
  IF \E i \in 1..Len(keys) : keys[i] = id
  THEN CHOOSE i \in 1..Len(keys) : keys[i] = id
  ELSE 0

\* Map.delete(id)
MapDelete(keys, id) == SelectSeq(keys, LAMBDA key : key # id)

\* the onReady callback the constructor gives the engine
onReady_AnyId(k, id) ==
  IF id # Null /\ k.pendingResets # <<>>
  THEN [settle(k, Head(k.pendingResets), "resolved", Null) EXCEPT !.pendingResets = Tail(@)]
  ELSE k

\* onReady that resolves the promise and keeps its entry in the Map
onReady_KeepEntry(k, id) ==
  IF id # Null /\ KeyIndex(k.pendingResets, id) # 0
  THEN settle(k, id, "resolved", Null)
  ELSE k

onReady(k, id) ==
  IF id # Null /\ KeyIndex(k.pendingResets, id) # 0
  THEN [settle(k, id, "resolved", Null) EXCEPT !.pendingResets = MapDelete(@, id)]
  ELSE k

\* the engine's callbacks of log that reach the client, run in order
RECURSIVE runCallbacks(_, _)
runCallbacks(k, log) ==
  IF log = <<>> THEN k
  ELSE runCallbacks(
         CASE Head(log).cb = "onReady" -> onReady(k, Head(log).id)
           [] Head(log).cb = "onUtteranceChanged" ->
                onUtteranceChanged_client(k, Head(log).utterance, Head(log).index)
           [] Head(log).cb = "onLanguagesChanged" ->
                onLanguagesChanged_client(k, Head(log).languages)
           [] OTHER -> k,
         Tail(log))

reset_SameId(k) ==
  LET n == k.resetIdCounter + 1
      id == ResetId(1)
      k1 == [k EXCEPT !.resetIdCounter = n, !.engine = resetReady(@, FALSE)]
      k2 == sendMessage(k1, ResetMessage(id))
  IN [k2 EXCEPT !.pendingResets = Append(@, id),
                !.promises = Append(@, [id |-> id, state |-> "pending", reason |-> Null])]

\* reset() that leaves the engine as it is until the ready arrives
reset_KeepEngine(k) ==
  LET n == k.resetIdCounter + 1
      id == ResetId(n)
      k1 == [k EXCEPT !.resetIdCounter = n]
      k2 == sendMessage(k1, ResetMessage(id))
  IN [k2 EXCEPT !.pendingResets = Append(@, id),
                !.promises = Append(@, [id |-> id, state |-> "pending", reason |-> Null])]

reset(k) ==
  LET n == k.resetIdCounter + 1
      id == ResetId(n)
      k1 == [k EXCEPT !.resetIdCounter = n, !.engine = resetReady(@, FALSE)]
      k2 == sendMessage(k1, ResetMessage(id))
  IN [k2 EXCEPT !.pendingResets = Append(@, id),
                !.promises = Append(@, [id |-> id, state |-> "pending", reason |-> Null])]

\* resolve() or reject() of the promise the connect() call c returned
settleConnect(k, c, state, reason) ==
  IF k.connects[c].promise # "pending" THEN k
  ELSE [k EXCEPT !.connects[c].promise = state, !.connects[c].reason = reason]

\* the catch handler of onnegotiationneeded, and the same test in
\* onconnectionstatechange
failConnect(k, c, reason) ==
  IF ~k.connects[c].connectFailed
  THEN settleConnect([k EXCEPT !.connects[c].connectFailed = TRUE], c, "rejected", reason)
  ELSE k

\* RTCPeerConnection.close() of the peer connect() call c made: the peer
\* and its data channel are closed
close(k, c) ==
  [k EXCEPT !.connects[c].connectionState = "closed",
            !.connects[c].channel = "closed"]

\* what a connect() call past the first test starts with; wasConnected
\* is history: the peer's connectionState has been "connected"
NewConnect(supplied) ==
  [supplied |-> supplied,
   stage |-> "getUserMedia",
   promise |-> "pending",
   reason |-> Null,
   connectionState |-> "new",
   wasConnected |-> FALSE,
   channel |-> "connecting",
   negotiation |-> "idle",
   translatedAudio |-> FALSE,
   connectFailed |-> FALSE]

\* connect(), from "Create RTCPeerConnection" to the promise it returns
wire(k, c) ==
  [k EXCEPT !.peerConnection = Some(c),
            !.dataChannel = Some(c),
            !.connects[c].stage = "wired"]

\* connect(options) up to the first await: with options.audioTrack supplied
\* it runs to the end
connect_ClearFirst(k, supplied) ==
  LET k1 == setConnectionState([k EXCEPT !.error = Null], "connecting")
  IN IF k.peerConnection # Undefined
     THEN [k1 EXCEPT !.thrown = "Already connected. Call disconnect() first."]
     ELSE LET c == Len(k.connects) + 1
              k2 == [k1 EXCEPT !.connects = Append(@, NewConnect(supplied))]
          IN IF supplied
             THEN wire([k2 EXCEPT !.audioTrack = Some(c),
                                  !.localStream = Some(c),
                                  !.ownsAudioTrack = FALSE,
                                  !.liveTracks = @ \cup {c}], c)
             ELSE k2

connect(k, supplied) ==
  IF k.peerConnection # Undefined
  THEN [k EXCEPT !.thrown = "Already connected. Call disconnect() first."]
  ELSE LET c == Len(k.connects) + 1
           k1 == setConnectionState([k EXCEPT !.error = Null], "connecting")
           k2 == [k1 EXCEPT !.connects = Append(@, NewConnect(supplied))]
       IN IF supplied
          THEN wire([k2 EXCEPT !.audioTrack = Some(c),
                               !.localStream = Some(c),
                               !.ownsAudioTrack = FALSE,
                               !.liveTracks = @ \cup {c}], c)
          ELSE k2

\* connect() resumed with the stream getUserMedia captured
getUserMediaResolved(k, c) ==
  wire([k EXCEPT !.localStream = Some(c),
                 !.audioTrack = Some(c),
                 !.ownsAudioTrack = TRUE,
                 !.liveTracks = @ \cup {c}], c)

\* connect() resumed in the catch block of getUserMedia
getUserMediaRejected(k, c) ==
  LET k1 == setConnectionState(k, "disconnected")
  IN settleConnect([k1 EXCEPT !.connects[c].stage = "denied"], c, "rejected",
                   "Could not access microphone. Please check permissions.")

\* peer.onnegotiationneeded: connectToServer up to its first await
onnegotiationneeded(k, c) ==
  [k EXCEPT !.connects[c].negotiation = "offering"]

\* connectToServer resumed after createOffer and setLocalDescription, which
\* a closed peer rejects, up to the fetch
connectToServer_offer(k, c) ==
  IF k.connects[c].connectionState = "closed"
  THEN failConnect([k EXCEPT !.connects[c].negotiation = "failed"], c, "InvalidStateError")
  ELSE IF ~k.options.credentials
  THEN failConnect([k EXCEPT !.connects[c].negotiation = "failed"], c,
                   "Missing credentials: provide apiKey or accessToken.")
  ELSE [k EXCEPT !.connects[c].negotiation = "fetching"]

\* the message connectToServer sets for a response that is not ok
StatusError(status) ==
  CASE status = 401 -> "Authentication failed. Please sign in again."
    [] status = 403 -> "Access denied. You don't have permission to use translation services."
    [] OTHER -> "Unable to connect to translation server. Please try again later."

\* connectToServer resumed with the response of the fetch, to its end;
\* setRemoteDescription is rejected by a closed peer
connectToServer_response(k, c, status) ==
  IF status # 200
  THEN LET k1 == setError(k, StatusError(status))
       IN failConnect([k1 EXCEPT !.connects[c].negotiation = "failed"], c, k1.error)
  ELSE LET k1 == [k EXCEPT !.sessionId = "session"]
       IN IF k1.connects[c].connectionState = "closed"
          THEN failConnect([k1 EXCEPT !.connects[c].negotiation = "failed"], c,
                           "InvalidStateError")
          ELSE [k1 EXCEPT !.connects[c].negotiation = "done"]

\* tryResolve of the connect() call c
tryResolve(k, c) ==
  IF k.connects[c].translatedAudio /\ ~k.connects[c].connectFailed
  THEN settleConnect(k, c, "resolved", Null)
  ELSE k

\* peer.ontrack
ontrack(k, c) ==
  tryResolve([k EXCEPT !.connects[c].translatedAudio = TRUE], c)

\* peer.onconnectionstatechange, the peer's connectionState having become
\* state
onconnectionstatechange(k, c, state) ==
  LET k1 == setConnectionState(
              [k EXCEPT !.connects[c].connectionState = state,
                        !.connects[c].wasConnected = @ \/ state = "connected"],
              webrtcToConnectionState(state))
      k2 == IF state = "failed"
            THEN LET k3 == setError(k1, "Disconnected from server.")
                 IN failConnect(k3, c, k3.error)
            ELSE k1
  IN IF state = "closed"
     THEN [close(k2, c) EXCEPT !.peerConnection = Undefined]
     ELSE k2

\* dc.send of every message of queue, in order
RECURSIVE sendAll(_, _, _)
sendAll(k, c, queue) ==
  IF queue = <<>> THEN k
  ELSE sendAll(send(k, c, Head(queue)), c, Tail(queue))

\* dc.onopen of the channel connect() call c made
onopen_KeepQueue(k, c) ==
  sendAll([k EXCEPT !.connects[c].channel = "open"], c, k.messageQueue)

\* dc.onopen that empties the queue and sends nothing
onopen_DropQueue(k, c) ==
  [k EXCEPT !.connects[c].channel = "open", !.messageQueue = <<>>]

onopen(k, c) ==
  [sendAll([k EXCEPT !.connects[c].channel = "open"], c, k.messageQueue)
     EXCEPT !.messageQueue = <<>>]

\* LTMessage.parse(JSON.parse(data)): the message, or Undefined where
\* either throws
parse(data) ==
  IF data.json /\ data.schema THEN Some(data.value) ELSE Undefined

\* dc.onmessage
\* dc.onmessage that hands the engine whatever the data holds
onmessage_Unparsed(k, data) ==
  LET s == handleMessage(k.engine, data.value)
  IN runCallbacks([k EXCEPT !.engine = s], s.calls)

onmessage(k, data) ==
  IF parse(data) = Undefined THEN k
  ELSE LET s == handleMessage(k.engine, parse(data)[1])
       IN runCallbacks([k EXCEPT !.engine = s], s.calls)

\* reject of every pending reset, in the Map's order
RECURSIVE rejectAll(_, _)
rejectAll(k, keys) ==
  IF keys = <<>> THEN k
  ELSE rejectAll(settle(k, Head(keys), "rejected", "Disconnected"), Tail(keys))

disconnect_KeepQueue(k) ==
  LET k1 == [rejectAll(k, k.pendingResets) EXCEPT !.pendingResets = <<>>]
      k2 == [k1 EXCEPT !.sessionId = Null]
      k3 == IF k2.peerConnection # Undefined
            THEN [close(k2, k2.peerConnection[1]) EXCEPT !.peerConnection = Undefined]
            ELSE k2
      k4 == IF k3.ownsAudioTrack /\ k3.localStream # Undefined
            THEN [k3 EXCEPT !.liveTracks = @ \ {k3.localStream[1]}]
            ELSE k3
      k5 == [k4 EXCEPT !.localStream = Undefined,
                       !.audioTrack = Undefined,
                       !.ownsAudioTrack = FALSE,
                       !.dataChannel = Undefined]
      k6 == [setConnectionState(k5, "disconnected") EXCEPT !.error = Null]
  IN [k6 EXCEPT !.engine = destroy(resetReady(@, FALSE))]

disconnect(k) ==
  LET k1 == [rejectAll(k, k.pendingResets) EXCEPT !.pendingResets = <<>>]
      k2 == [k1 EXCEPT !.sessionId = Null]
      k3 == IF k2.peerConnection # Undefined
            THEN [close(k2, k2.peerConnection[1]) EXCEPT !.peerConnection = Undefined]
            ELSE k2
      k4 == IF k3.ownsAudioTrack /\ k3.localStream # Undefined
            THEN [k3 EXCEPT !.liveTracks = @ \ {k3.localStream[1]}]
            ELSE k3
      k5 == [k4 EXCEPT !.localStream = Undefined,
                       !.audioTrack = Undefined,
                       !.ownsAudioTrack = FALSE,
                       !.dataChannel = Undefined,
                       !.discarded = @ \o k4.messageQueue,
                       !.messageQueue = <<>>]
      k6 == [setConnectionState(k5, "disconnected") EXCEPT !.error = Null]
  IN [k6 EXCEPT !.engine = destroy(resetReady(@, FALSE))]

\* ------------------------------------------------------------------------
\* Actions
\* ------------------------------------------------------------------------
CommitEngine(s) ==
  /\ transcriptions' = s.transcriptions
  /\ translations' = s.translations
  /\ transcriptionsSpeechBoundary' = s.transcriptionsSpeechBoundary
  /\ translationsSpeechBoundary' = s.translationsSpeechBoundary
  /\ identifiedLanguages' = s.identifiedLanguages
  /\ resetTime' = s.resetTime
  /\ pendingTimeouts' = s.pendingTimeouts
  /\ readyOnceCallbacks' = s.readyOnceCallbacks
  /\ timers' = s.timers
  /\ calls' = s.calls

\* a step of the engine alone
Commit(s) ==
  /\ CommitEngine(s)
  /\ UNCHANGED <<clientVars, browserVars, clientHistory>>

\* a step of the client, its engine included
CommitClient(k) ==
  /\ CommitEngine(k.engine)
  /\ options' = k.options
  /\ peerConnection' = k.peerConnection
  /\ dataChannel' = k.dataChannel
  /\ localStream' = k.localStream
  /\ audioTrack' = k.audioTrack
  /\ ownsAudioTrack' = k.ownsAudioTrack
  /\ messageQueue' = k.messageQueue
  /\ sessionId' = k.sessionId
  /\ connectionState' = k.connectionState
  /\ error' = k.error
  /\ utteranceCallbacks' = k.utteranceCallbacks
  /\ languagesCallbacks' = k.languagesCallbacks
  /\ connectionStateCallbacks' = k.connectionStateCallbacks
  /\ errorCallbacks' = k.errorCallbacks
  /\ pendingResets' = k.pendingResets
  /\ resetIdCounter' = k.resetIdCounter
  /\ connects' = k.connects
  /\ liveTracks' = k.liveTracks
  /\ promises' = k.promises
  /\ settled' = k.settled
  /\ sent' = k.sent
  /\ discarded' = k.discarded
  /\ emitted' = k.emitted
  /\ invoked' = k.invoked
  /\ subscribed' = k.subscribed
  /\ unsubscribed' = k.unsubscribed

\* the client constructed with opts
InitClientWith(opts) ==
  /\ options = ConstructedClient(opts).options
  /\ peerConnection = ConstructedClient(opts).peerConnection
  /\ dataChannel = ConstructedClient(opts).dataChannel
  /\ localStream = ConstructedClient(opts).localStream
  /\ audioTrack = ConstructedClient(opts).audioTrack
  /\ ownsAudioTrack = ConstructedClient(opts).ownsAudioTrack
  /\ messageQueue = ConstructedClient(opts).messageQueue
  /\ sessionId = ConstructedClient(opts).sessionId
  /\ connectionState = ConstructedClient(opts).connectionState
  /\ error = ConstructedClient(opts).error
  /\ utteranceCallbacks = ConstructedClient(opts).utteranceCallbacks
  /\ languagesCallbacks = ConstructedClient(opts).languagesCallbacks
  /\ connectionStateCallbacks = ConstructedClient(opts).connectionStateCallbacks
  /\ errorCallbacks = ConstructedClient(opts).errorCallbacks
  /\ pendingResets = ConstructedClient(opts).pendingResets
  /\ resetIdCounter = ConstructedClient(opts).resetIdCounter
  /\ connects = ConstructedClient(opts).connects
  /\ liveTracks = ConstructedClient(opts).liveTracks
  /\ promises = ConstructedClient(opts).promises
  /\ settled = ConstructedClient(opts).settled
  /\ sent = ConstructedClient(opts).sent
  /\ discarded = ConstructedClient(opts).discarded
  /\ emitted = ConstructedClient(opts).emitted
  /\ invoked = ConstructedClient(opts).invoked
  /\ subscribed = ConstructedClient(opts).subscribed
  /\ unsubscribed = ConstructedClient(opts).unsubscribed

InitEngine ==
  /\ transcriptions = Constructed.transcriptions
  /\ translations = Constructed.translations
  /\ transcriptionsSpeechBoundary = Constructed.transcriptionsSpeechBoundary
  /\ translationsSpeechBoundary = Constructed.translationsSpeechBoundary
  /\ identifiedLanguages = Constructed.identifiedLanguages
  /\ resetTime = Constructed.resetTime
  /\ pendingTimeouts = Constructed.pendingTimeouts
  /\ readyOnceCallbacks = Constructed.readyOnceCallbacks
  /\ timers = Constructed.timers
  /\ calls = Constructed.calls
  /\ now = StartNow
  /\ lastOp = [op |-> "new"]
  /\ run = NoRun
  /\ awaiting = <<>>
  /\ torn = 0

\* the engine of a client that has an API key
Init ==
  /\ InitEngine
  /\ InitClientWith(WithCredentials)

\* state.handleMessage({type: "transcription", ...}), the fragment drawn
\* from messages
ReceiveTranscription(messages) ==
  \E message \in messages :
    /\ FitsEntries(transcriptions, message.transcription.utterance_idx)
    /\ FitsWords(message.transcription)
    /\ \E s \in {handleMessage(Current, message)} :
       /\ Commit(s)
       /\ lastOp' = [op |-> "transcription", message |-> message]
       /\ run' = RunAfter(message.transcription)
       /\ UNCHANGED <<now, awaiting, torn>>

\* state.handleMessage({type: "translation", ...}), the fragment drawn from
\* messages
ReceiveTranslation(messages) ==
  \E message \in messages :
    /\ FitsEntries(translations, message.translation.utterance_idx)
    /\ FitsWords(message.translation)
    /\ \E s \in {handleMessage(Current, message)} :
       /\ Commit(s)
       /\ lastOp' = [op |-> "translation", message |-> message]
       /\ UNCHANGED <<now, run, awaiting, torn>>

\* state.handleMessage({type: "ready", ...}); a timer of the previous epoch
\* that is still armed afterwards is marked stale
ReceiveReady ==
  \E message \in ReadyMessages :
    \E s \in {handleMessage(Current, message)} :
       /\ Commit([s EXCEPT !.timers = MarkStale(@)])
       /\ lastOp' = [op |-> "ready", message |-> message, pre |-> Pre(Current)]
       /\ run' = NoRun
       /\ awaiting' = <<>>
       /\ torn' = 0
       /\ UNCHANGED now

\* state.handleMessage({type: "speech_delimiter", ...}), the message drawn
\* from messages
ReceiveDelimiter(messages) ==
  \E message \in messages :
    /\ Len(timers) < MaxPending
    /\ \E s \in {handleMessage(Current, message)} :
       /\ Commit(s)
       /\ lastOp' = [op |-> "speech_delimiter", message |-> message]
       /\ UNCHANGED <<now, run, awaiting, torn>>

ReceiveSpeechDelimiter == ReceiveDelimiter(SpeechDelimiterMessages)

\* state.handleMessage({type: "languages", ...})
ReceiveLanguages ==
  \E message \in LanguagesMessages :
    \E s \in {handleMessage(Current, message)} :
       /\ Commit(s)
       /\ lastOp' = [op |-> "languages", message |-> message]
       /\ UNCHANGED <<now, run, awaiting, torn>>

\* the runtime runs the callback of a timer whose deadline has passed and
\* disarms it
Timeout ==
  \E i \in NextDue(timers) :
    \E s \in {timeoutCallback([Current EXCEPT !.timers = clearTimeout(@, timers[i].id)],
                               timers[i])} :
       /\ Commit(s)
       /\ lastOp' = [op |-> "timeout", timer |-> timers[i]]
       /\ UNCHANGED <<now, run, awaiting, torn>>

\* state.resetReady(ready)
ResetReady ==
  \E ready \in BOOLEAN :
    \E s \in {resetReady(Current, ready)} :
       /\ Commit(s)
       /\ lastOp' = [op |-> "resetReady", ready |-> ready, pre |-> Pre(Current)]
       /\ run' = NoRun
       /\ UNCHANGED <<now, awaiting, torn>>

\* state.destroy(); a timer that is still armed afterwards is marked stale
Destroy ==
  /\ Commit([destroy(Current) EXCEPT !.timers = MarkStale(@)])
  /\ lastOp' = [op |-> "destroy", pre |-> Pre(Current)]
  /\ torn' = Len(awaiting)
  /\ UNCHANGED <<now, run, awaiting>>

\* state.onReadyOnce(callback)
OnReadyOnce ==
  \E callback \in ReadyListeners :
    /\ Len(awaiting) < MaxReadyOnce
    /\ Commit(onReadyOnce(Current, callback))
    /\ lastOp' = [op |-> "onReadyOnce", callback |-> callback]
    /\ awaiting' = Append(awaiting, callback)
    /\ UNCHANGED torn
    /\ UNCHANGED <<now, run>>

\* time passes
Tick ==
  /\ now + MsPerSecond <= StartNow + MaxTicks * MsPerSecond
  /\ now' = now + MsPerSecond
  /\ calls' = <<>>
  /\ lastOp' = [op |-> "tick"]
  /\ UNCHANGED <<engineVars, timers, run, awaiting, torn>>
  /\ UNCHANGED <<clientVars, browserVars, clientHistory>>

\* the connect() calls that made a peer connection
Wired == {c \in 1..Len(connects) : connects[c].stage = "wired"}

\* the peers the browser still delivers events of: a closed peer and its
\* channel deliver none
Live == {c \in Wired : connects[c].connectionState # "closed"}

\* the run of fragments after the engine handled data
RunAfterData(data) ==
  IF parse(data) = Undefined THEN run
  ELSE IF parse(data)[1].type = "transcription" THEN RunAfter(parse(data)[1].transcription)
  ELSE IF parse(data)[1].type = "ready" THEN NoRun
  ELSE run

\* client.connect(options), to its first await or to the promise it
\* returns; supplieds: is options.audioTrack given
ConnectCall(supplieds) ==
  \E supplied \in supplieds :
    /\ peerConnection # Undefined \/ Len(connects) < MaxConnects
    /\ \E k \in {connect(CurrentClient, supplied)} :
       /\ CommitClient(k)
       /\ lastOp' = [op |-> "connect", supplied |-> supplied, thrown |-> k.thrown]
       /\ UNCHANGED <<now, run, awaiting, torn>>

\* getUserMedia resolves and connect() runs on to the promise it returns
MicGranted ==
  \E c \in 1..Len(connects) :
    /\ connects[c].stage = "getUserMedia"
    /\ CommitClient(getUserMediaResolved(CurrentClient, c))
    /\ lastOp' = [op |-> "getUserMedia", c |-> c, granted |-> TRUE]
    /\ UNCHANGED <<now, run, awaiting, torn>>

\* getUserMedia rejects and connect() throws
MicDenied ==
  \E c \in 1..Len(connects) :
    /\ connects[c].stage = "getUserMedia"
    /\ CommitClient(getUserMediaRejected(CurrentClient, c))
    /\ lastOp' = [op |-> "getUserMedia", c |-> c, granted |-> FALSE]
    /\ UNCHANGED <<now, run, awaiting, torn>>

\* the negotiationneeded event of a peer, fired once after the tracks and
\* the channel were added
NegotiationNeeded ==
  \E c \in Live :
    /\ connects[c].negotiation = "idle"
    /\ CommitClient(onnegotiationneeded(CurrentClient, c))
    /\ lastOp' = [op |-> "negotiationneeded", c |-> c]
    /\ UNCHANGED <<now, run, awaiting, torn>>

\* createOffer and setLocalDescription settle
OfferReady ==
  \E c \in Wired :
    /\ connects[c].negotiation = "offering"
    /\ CommitClient(connectToServer_offer(CurrentClient, c))
    /\ lastOp' = [op |-> "offer", c |-> c]
    /\ UNCHANGED <<now, run, awaiting, torn>>

\* the statuses the session endpoint answers with
Statuses == {200, 401, 403, 500}

\* the fetch of connectToServer settles with a response
FetchResponse(statuses) ==
  \E c \in Wired, status \in statuses :
    /\ connects[c].negotiation = "fetching"
    /\ CommitClient(connectToServer_response(CurrentClient, c, status))
    /\ lastOp' = [op |-> "response", c |-> c, status |-> status]
    /\ UNCHANGED <<now, run, awaiting, torn>>

\* the track event of a peer whose remote description is set
Track ==
  \E c \in Live :
    /\ connects[c].negotiation = "done"
    /\ ~connects[c].translatedAudio
    /\ CommitClient(ontrack(CurrentClient, c))
    /\ lastOp' = [op |-> "track", c |-> c]
    /\ UNCHANGED <<now, run, awaiting, torn>>

\* the states a transport can move to once both descriptions are set
TransportStates == {"connecting", "connected", "disconnected", "failed"}

\* the values of RTCPeerConnection.connectionState
PeerStates == {"new", "closed"} \cup TransportStates

\* the connectionstatechange event of a peer: the transport moves, or the
\* browser reports the peer closed, along one of edges
PeerStateChangeAlong(edges) ==
  \E c \in Live, state \in PeerStates :
    /\ <<connects[c].connectionState, state>> \in edges
    /\ state # connects[c].connectionState
    /\ state \in TransportStates => connects[c].negotiation = "done"
    /\ CommitClient(onconnectionstatechange(CurrentClient, c, state))
    /\ lastOp' = [op |-> "connectionstatechange", c |-> c, state |-> state]
    /\ UNCHANGED <<now, run, awaiting, torn>>

PeerStateChange(states) ==
  PeerStateChangeAlong({<<from, to>> : from \in PeerStates, to \in states})

\* the open event of a data channel
ChannelOpen ==
  \E c \in Live :
    /\ connects[c].channel = "connecting"
    /\ connects[c].negotiation = "done"
    /\ CommitClient(onopen(CurrentClient, c))
    /\ lastOp' = [op |-> "open", c |-> c]
    /\ UNCHANGED <<now, run, awaiting, torn>>

\* what the server puts on the wire for message
Wire(message) == [json |-> TRUE, schema |-> TRUE, value |-> message]

\* data keeps the engine within the bounds, as the guards of the Receive
\* actions do
Fits(data) ==
  IF parse(data) = Undefined THEN TRUE
  ELSE LET message == parse(data)[1]
       IN CASE message.type = "transcription" ->
                 /\ FitsEntries(transcriptions, message.transcription.utterance_idx)
                 /\ FitsWords(message.transcription)
            [] message.type = "translation" ->
                 /\ FitsEntries(translations, message.translation.utterance_idx)
                 /\ FitsWords(message.translation)
            [] message.type = "speech_delimiter" -> Len(timers) < MaxPending
            [] OTHER -> TRUE

\* the message event of an open data channel, its data drawn from events;
\* as in ReceiveReady, a timer still armed after a ready is marked stale
ChannelMessage(events) ==
  \E c \in Live, data \in events :
    /\ connects[c].channel = "open"
    /\ Fits(data)
    /\ \E k \in {onmessage(CurrentClient, data)} :
       /\ CommitClient(IF parse(data) # Undefined /\ parse(data)[1].type = "ready"
                       THEN [k EXCEPT !.engine.timers = MarkStale(@)]
                       ELSE k)
       /\ lastOp' = [op |-> "message", c |-> c, data |-> data, pre |-> Pre(Current)]
       /\ run' = RunAfterData(data)
       /\ awaiting' = IF parse(data) # Undefined /\ parse(data)[1].type = "ready"
                      THEN <<>> ELSE awaiting
       /\ torn' = IF parse(data) # Undefined /\ parse(data)[1].type = "ready"
                  THEN 0 ELSE torn
       /\ UNCHANGED now

\* client.reset(options)
ResetCall ==
  /\ resetIdCounter < MaxResets
  /\ CommitClient(reset(CurrentClient))
  /\ lastOp' = [op |-> "reset", id |-> ResetId(resetIdCounter + 1), pre |-> Pre(Current)]
  /\ run' = NoRun
  /\ UNCHANGED <<now, awaiting, torn>>

\* the call or event before the step just taken, time that passed since
\* left aside
LastCall ==
  IF lastOp.op = "tick" /\ "after" \in DOMAIN lastOp THEN lastOp.after ELSE lastOp.op

\* client.disconnect(); as in Destroy, a timer that is still armed afterwards
\* is marked stale
Disconnect ==
  \E k \in {disconnect(CurrentClient)} :
    /\ CommitClient([k EXCEPT !.engine.timers = MarkStale(@)])
    /\ lastOp' = [op |-> "disconnect", pre |-> Pre(Current), thrown |-> k.thrown,
                  after |-> LastCall]
    /\ run' = NoRun
    /\ torn' = Len(awaiting)
    /\ UNCHANGED <<now, awaiting>>

\* time passes between two calls on the client
TickBetweenCalls ==
  /\ now + MsPerSecond <= StartNow + MaxTicks * MsPerSecond
  /\ now' = now + MsPerSecond
  /\ calls' = <<>>
  /\ emitted' = <<>>
  /\ invoked' = <<>>
  /\ lastOp' = [op |-> "tick", after |-> LastCall]
  /\ UNCHANGED <<engineVars, timers, run, awaiting, torn>>
  /\ UNCHANGED <<clientVars, browserVars, settled, sent, discarded, subscribed,
               unsubscribed>>

\* the subscription methods and the callbacks the application has
Methods == {"onUtterance", "onLanguages", "onConnectionStateChange", "onError"}
Callbacks == {"first", "second"}

subscribe(k, method, callback) ==
  CASE method = "onUtterance" -> onUtterance(k, callback)
    [] method = "onLanguages" -> onLanguages(k, callback)
    [] method = "onConnectionStateChange" -> onConnectionStateChange(k, callback)
    [] method = "onError" -> onError(k, callback)

\* const unsub = client.onUtterance(callback), and likewise the other three;
\* the application gives each of its callbacks to one method
Subscribe ==
  \E method \in Methods, callback \in Callbacks :
    /\ \A other \in Methods \ {method} :
         <<other, callback>> \notin subscribed \cup unsubscribed
    /\ CommitClient([subscribe(CurrentClient, method, callback) EXCEPT
                       !.subscribed = @ \cup {<<method, callback>>},
                       !.unsubscribed = @ \ {<<method, callback>>}])
    /\ lastOp' = [op |-> "subscribe"]
    /\ UNCHANGED <<now, run, awaiting, torn>>

\* unsub(), the function a subscription method returned for callback
Unsubscribe ==
  \E method \in Methods, callback \in Callbacks :
    /\ <<method, callback>> \in subscribed
    /\ CommitClient([unsubscribe(CurrentClient, method, callback) EXCEPT
                       !.subscribed = @ \ {<<method, callback>>},
                       !.unsubscribed = @ \cup {<<method, callback>>}])
    /\ lastOp' = [op |-> "unsubscribe"]
    /\ UNCHANGED <<now, run, awaiting, torn>>

\* ------------------------------------------------------------------------
\* Specifications
\* ------------------------------------------------------------------------
\* The whole engine, in a session whose fragments carry only finalized
\* words and only the word "world".
SessionTranscription ==
  ReceiveTranscription(TranscriptionMessages(WorldLists, {<<>>}))

SessionTranslation ==
  ReceiveTranslation(TranslationMessages(WorldLists, {<<>>}))

Next ==
  \/ SessionTranscription
  \/ SessionTranslation
  \/ ReceiveReady
  \/ ReceiveSpeechDelimiter
  \/ ReceiveLanguages
  \/ Timeout
  \/ ResetReady
  \/ Destroy
  \/ OnReadyOnce
  \/ Tick

Spec == Init /\ [][Next]_vars

\* The transcription ledger under every fragment (any words, complete and
\* partial, the indices in any order) and the resets.
FragmentTranscription ==
  ReceiveTranscription(TranscriptionMessages(WordLists, PartialLists))

NextTranscription ==
  \/ FragmentTranscription
  \/ ReceiveReady
  \/ ResetReady

SpecTranscription == Init /\ [][NextTranscription]_vars

\* The two ledgers side by side: the translation ledger under every
\* fragment, the transcription ledger under fragments of at most one
\* finalized word, and the resets.
PlainTranscription ==
  ReceiveTranscription(TranscriptionMessages(PlainLists, {<<>>}))

FragmentTranslation ==
  ReceiveTranslation(TranslationMessages(WordLists, PartialLists))

NextFragments ==
  \/ PlainTranscription
  \/ FragmentTranslation
  \/ ReceiveReady
  \/ ResetReady

SpecFragments == Init /\ [][NextFragments]_vars

\* The two ledgers under a server that sends the fragments of each ledger in
\* non-decreasing utterance_idx order between two resets.
OrderedTranscription ==
  ReceiveTranscription(
    {m \in TranscriptionMessages(WordLists, PartialLists) :
       ServerOrdered(transcriptions, m.transcription.utterance_idx)})

OrderedTranslation ==
  ReceiveTranslation(
    {m \in TranslationMessages(WordLists, PartialLists) :
       ServerOrdered(translations, m.translation.utterance_idx)})

NextOrdered ==
  \/ OrderedTranscription
  \/ OrderedTranslation
  \/ ReceiveReady
  \/ ResetReady

SpecOrdered == Init /\ [][NextOrdered]_vars

\* One epoch after another: resets, boundary updates and the clock, with
\* all fragments for utterance 0.
ForUtterance0(messages, field) == {m \in messages : m[field].utterance_idx = 0}

EpochTranscription ==
  ReceiveTranscription(
    ForUtterance0(TranscriptionMessages(WorldLists, {<<>>}), "transcription"))

EpochTranslation ==
  ReceiveTranslation(
    ForUtterance0(TranslationMessages(WorldLists, {<<>>}), "translation"))

NextEpoch ==
  \/ EpochTranscription
  \/ EpochTranslation
  \/ ReceiveReady
  \/ ReceiveSpeechDelimiter
  \/ ReceiveLanguages
  \/ Timeout
  \/ ResetReady
  \/ Tick

SpecEpoch == Init /\ [][NextEpoch]_vars

\* The one-shot ready listeners: registrations, ready messages, resets and
\* destroy, next to transcriptions for utterance 0 and languages.
NextListeners ==
  \/ OnReadyOnce
  \/ ReceiveReady
  \/ Destroy
  \/ ResetReady
  \/ ReceiveLanguages
  \/ EpochTranscription

SpecListeners == Init /\ [][NextListeners]_vars

\* Teardown of the engine: one-shot listeners and boundary updates, ready
\* messages and the clock, and destroy() at any moment.
NextDestroy ==
  \/ OnReadyOnce
  \/ ReceiveReady
  \/ ReceiveSpeechDelimiter
  \/ Timeout
  \/ Tick
  \/ Destroy

SpecDestroy == Init /\ [][NextDestroy]_vars

\* Boundary updates over ledgers of several utterances: the fragments of
\* the whole engine's session in non-decreasing utterance_idx order,
\* boundary updates that are due at once, and ready messages.
BoundaryTranscription ==
  ReceiveTranscription(
    {m \in TranscriptionMessages(WorldLists, {<<>>}) :
       ServerOrdered(transcriptions, m.transcription.utterance_idx)})

BoundaryTranslation ==
  ReceiveTranslation(
    {m \in TranslationMessages(WorldLists, {<<>>}) :
       ServerOrdered(translations, m.translation.utterance_idx)})

PromptDelimiter ==
  ReceiveDelimiter(
    {m \in SpeechDelimiterMessages : m.speech_delimiter.time = Min(DelimiterTimes)})

NextBoundary ==
  \/ BoundaryTranscription
  \/ BoundaryTranslation
  \/ PromptDelimiter
  \/ Timeout
  \/ ReceiveReady

SpecBoundary == Init /\ [][NextBoundary]_vars

\* A server whose utterance indices have gaps: fragments without words for
\* the indices 0, 2 and 5 in non-decreasing order, and boundary updates
\* whose transcription target is utterance 2 and whose translation target is
\* utterance 0.
GapIndices == {0, 2, 5}

GapTranscription ==
  ReceiveTranscription(
    {[type |-> "transcription",
      transcription |-> [complete |-> <<>>, partial |-> <<>>, utterance_idx |-> i]] :
       i \in {j \in GapIndices : ServerOrdered(transcriptions, j)}})

GapDelimiter ==
  ReceiveDelimiter(
    {[type |-> "speech_delimiter",
      speech_delimiter |-> [time |-> t,
                            transcription |-> Delimiter(2, 0, 0),
                            translation |-> Delimiter(0, 0, 0)]] :
       t \in DelimiterTimes})

NextGaps ==
  \/ GapTranscription
  \/ GapDelimiter
  \/ Timeout
  \/ Tick
  \/ ReceiveReady

SpecGaps == Init /\ [][NextGaps]_vars

\* The client of a server that only acknowledges: every message on the data
\* channel is a ready, with the id of a reset or with none.
AckIds == {ResetId(n) : n \in 1..MaxResets} \cup {Null}

AckEvents == {Wire(message) : message \in {[type |-> "ready", ready |-> [id |-> id]] : id \in AckIds}}

Acknowledge == ChannelMessage(AckEvents)

InitClient ==
  /\ InitEngine
  /\ \E opts \in OptionSets : InitClientWith(opts)

\* Sessions that the caller gives its own audio track and that the server
\* accepts, with resets at any moment.
ConnectSupplied == ConnectCall({TRUE})

FetchOk == FetchResponse({200})

NextResets ==
  \/ ConnectSupplied
  \/ NegotiationNeeded
  \/ OfferReady
  \/ FetchOk
  \/ ChannelOpen
  \/ Acknowledge
  \/ ResetCall
  \/ Disconnect

SpecResets == Init /\ [][NextResets]_vars

\* Sessions with either kind of audio track, handshakes that the server may
\* refuse, a first utterance, a boundary update and resets, torn down at
\* any moment; the application calls connect() again only when no earlier
\* call is still waiting for the microphone.
ConnectAny == ConnectCall(BOOLEAN)

ConnectInTurn ==
  /\ \A c \in 1..Len(connects) : connects[c].stage # "getUserMedia"
  /\ ConnectAny

FetchAnswered == FetchResponse({200, 401})

SessionEvents ==
  {Wire(message) : message \in
     ForUtterance0(TranscriptionMessages({<<World>>}, {<<>>}), "transcription")
       \cup {m \in SpeechDelimiterMessages :
               /\ m.speech_delimiter.time = Min(DelimiterTimes)
               /\ m.speech_delimiter.transcription = Delimiter(0, 1, 0)}}

SessionMessage == ChannelMessage(SessionEvents)

NextTeardown ==
  \/ ConnectInTurn
  \/ MicGranted
  \/ NegotiationNeeded
  \/ OfferReady
  \/ FetchAnswered
  \/ ChannelOpen
  \/ SessionMessage
  \/ ResetCall
  \/ Disconnect

SpecTeardown == Init /\ [][NextTeardown]_vars

\* Sessions with resets, disconnected any number of times while the clock
\* runs.
NextIdempotent ==
  \/ ConnectSupplied
  \/ NegotiationNeeded
  \/ OfferReady
  \/ FetchOk
  \/ ChannelOpen
  \/ ResetCall
  \/ Disconnect
  \/ TickBetweenCalls

SpecIdempotent == Init /\ [][NextIdempotent]_vars

\* Connection attempts of a client with or without credentials: the
\* microphone granted or denied, the handshake accepted or refused, the
\* transport moving through its states, and the audio track arriving.
HandshakeAnswered == FetchResponse(Statuses)

TransportMoves == PeerStateChange(TransportStates)

NextConnect ==
  \/ ConnectAny
  \/ MicGranted
  \/ MicDenied
  \/ NegotiationNeeded
  \/ OfferReady
  \/ HandshakeAnswered
  \/ Track
  \/ TransportMoves
  \/ Disconnect

SpecConnect == InitClient /\ [][NextConnect]_vars

\* Accepted sessions on the caller's audio track whose transport moves
\* through its states or is reported closed, with disconnect() and a new
\* connect() at any moment.
TransportSignals == PeerStateChange(TransportStates \cup {"closed"})

NextStatus ==
  \/ ConnectSupplied
  \/ NegotiationNeeded
  \/ OfferReady
  \/ FetchOk
  \/ TransportSignals
  \/ Disconnect

SpecStatus == Init /\ [][NextStatus]_vars

\* Accepted sessions on the caller's audio track whose transport moves as a
\* transport without ICE restart does: it connects or fails, a connected
\* transport loses connectivity, and connectivity comes back or is given up.
TransportEdges ==
  {<<"new", "connecting">>, <<"connecting", "connected">>,
   <<"connecting", "failed">>, <<"connected", "disconnected">>,
   <<"disconnected", "connected">>, <<"disconnected", "failed">>}

TransportFollows == PeerStateChangeAlong(TransportEdges)

NextTransitions ==
  \/ ConnectSupplied
  \/ NegotiationNeeded
  \/ OfferReady
  \/ FetchOk
  \/ TransportFollows
  \/ Disconnect

SpecTransitions == Init /\ [][NextTransitions]_vars

\* Subscriptions made and cancelled at any moment of sessions on the
\* caller's audio track that the server accepts or refuses, with a
\* transcription or a languages message as the first message of a session;
\* the application calls connect() when the client is disconnected.
ConnectAfresh ==
  /\ connectionState = "disconnected"
  /\ ConnectSupplied

ListenerEvents ==
  {Wire(message) : message \in
     ForUtterance0(TranscriptionMessages({<<World>>}, {<<>>}), "transcription")
       \cup {m \in LanguagesMessages : Len(m.languages.languages) = 1}}

ListenerMessage ==
  /\ transcriptions = <<>>
  /\ identifiedLanguages = <<>>
  /\ ChannelMessage(ListenerEvents)

NextSubscriptions ==
  \/ Subscribe
  \/ Unsubscribe
  \/ ConnectAfresh
  \/ NegotiationNeeded
  \/ OfferReady
  \/ FetchAnswered
  \/ ChannelOpen
  \/ ListenerMessage
  \/ Disconnect

SpecSubscriptions == Init /\ [][NextSubscriptions]_vars

\* Sessions whose data channel carries, next to messages that parse, data
\* that is not JSON and JSON that is not a message; the messages that parse
\* are acknowledgements and the first transcription of an epoch; resets at
\* any moment.
ParsedMessages ==
  {[type |-> "ready", ready |-> [id |-> id]] : id \in AckIds}
    \cup {m \in ForUtterance0(TranscriptionMessages({<<World>>}, {<<>>}), "transcription") :
            transcriptions = <<>>}

\* data that JSON.parse or LTMessage.parse rejects; value is the message it
\* resembles
Malformed(message) ==
  {[json |-> json, schema |-> FALSE, value |-> message] : json \in BOOLEAN}

MixedEvents ==
  {Wire(message) : message \in ParsedMessages}
    \cup UNION {Malformed(message) : message \in ParsedMessages}

MixedMessage == ChannelMessage(MixedEvents)

NextMalformed ==
  \/ ConnectAfresh
  \/ NegotiationNeeded
  \/ OfferReady
  \/ FetchOk
  \/ ChannelOpen
  \/ MixedMessage
  \/ ResetCall
  \/ Disconnect

SpecMalformed == Init /\ [][NextMalformed]_vars

\* Connection attempts up to the answer of the handshake, with connect()
\* called again at any moment.
NextHandshake ==
  \/ ConnectAny
  \/ MicGranted
  \/ MicDenied
  \/ NegotiationNeeded
  \/ OfferReady
  \/ HandshakeAnswered
  \/ Disconnect

SpecHandshake == InitClient /\ [][NextHandshake]_vars

\* ------------------------------------------------------------------------
\* Properties of the ledgers (SpecTranscription, SpecFragments)
\* ------------------------------------------------------------------------
\* C1: after the transcription fragments of one utterance_idx, handled
\* consecutively (no fragment with another index and no reset in between),
\* the run has made one entry, the last of the transcription ledger; its
\* complete list is the concatenation of the fragments' complete lists in
\* application order and its partial list is the last fragment's partial.
\* When these are all the fragments of that index, it is the only entry
\* with that index.
RunMergedIntoOneEntry ==
  run.idx # NoRun.idx =>
    LET entries == {i \in 1..Len(transcriptions) : transcriptions[i].idx = run.idx}
        last == Len(transcriptions)
    IN /\ last = run.base + 1
       /\ transcriptions[last].idx = run.idx
       /\ transcriptions[last].complete = run.complete
       /\ transcriptions[last].partial = run.partial
       /\ run.alone => entries = {last}

\* two fragments of one index were merged: first "b", then "a"
RunMergedIntoOneEntry_Witness ==
  /\ run.merged
  /\ run.alone
  /\ run.complete = <<WordB, WordA>>
  /\ lastOp.op = "transcription"

\* C2: handling a translation fragment with an empty complete list leaves
\* the translation ledger as it was, also when partial is not empty, and
\* invokes no callback (onUtteranceChanged zero times).
EmptyTranslationIgnored ==
  [][(/\ lastOp'.op = "translation"
      /\ lastOp'.message.translation.complete = <<>>)
     => (translations' = translations /\ calls' = <<>>)]_vars

\* a partial-only translation fragment was handled for an index that has a
\* transcription entry and a translation entry
EmptyTranslationIgnored_Witness ==
  /\ lastOp.op = "translation"
  /\ lastOp.message.translation.complete = <<>>
  /\ lastOp.message.translation.partial # <<>>
  /\ findIndex(transcriptions, lastOp.message.translation.utterance_idx) # -1
  /\ findIndex(translations, lastOp.message.translation.utterance_idx) # -1

\* C4: getState() has one display per transcription entry, in array order,
\* and the translation side of the display at position i is the translation
\* entry whose index equals that of the transcription at position i, empty
\* if there is none, whatever translation sits at array position i.
TranslationPairedByServerIndex ==
  LET utterances == getState(Current).utterances
  IN /\ Len(utterances) = Len(transcriptions)
     /\ \A i \in 1..Len(transcriptions) :
          LET same == {j \in 1..Len(translations) :
                         translations[j].idx = transcriptions[i].idx}
          IN /\ utterances[i].transcription.complete = transcriptions[i].complete
             /\ utterances[i].transcription.partial = transcriptions[i].partial
             /\ IF same = {}
                THEN /\ utterances[i].translation.complete = <<>>
                     /\ utterances[i].translation.partial = <<>>
                ELSE \E j \in same :
                       /\ utterances[i].translation.complete = translations[j].complete
                       /\ utterances[i].translation.partial = translations[j].partial

\* transcriptions for indices 0 and 2; the translation for index 2 sits at
\* array position 0 of its ledger
TranslationPairedByServerIndex_Witness ==
  /\ Len(transcriptions) = 2
  /\ transcriptions[1].idx = 0
  /\ transcriptions[2].idx = 2
  /\ Len(translations) = 1
  /\ translations[1].idx = 2

\* ------------------------------------------------------------------------
\* Properties of resets and scheduled boundary updates (SpecEpoch, Spec)
\* ------------------------------------------------------------------------
AtOrigin ==
  /\ transcriptionsSpeechBoundary = ZERO_POSITION
  /\ translationsSpeechBoundary = ZERO_POSITION

\* the characters of words, in order
RECURSIVE TextOfWords(_)
TextOfWords(words) ==
  IF words = <<>> THEN <<>> ELSE Head(words).word \o TextOfWords(Tail(words))

\* C3 (as claimed): with transcription entries for indices 0 and 2 and the
\* transcription boundary at {utterance_idx: 2, word_idx: 0, char_idx: 3},
\* the display of array position 0 is entirely spoken and the display of
\* array position 1 has the first three characters of its first word spoken
\* and everything after them unspoken.
GapBoundarySplitsFirstWord ==
  (/\ Len(transcriptions) = 2
   /\ transcriptions[1].idx = 0
   /\ transcriptions[2].idx = 2
   /\ transcriptions[2].complete # <<>>
   /\ transcriptionsSpeechBoundary = [utteranceIdx |-> 2, wordIdx |-> 0, charIdx |-> 3])
  => LET display0 == getUtteranceDisplay(Current, 0)
         display1 == getUtteranceDisplay(Current, 1)
         text1 == TextOfWords(transcriptions[2].complete \o transcriptions[2].partial)
         split == Min({3, Len(transcriptions[2].complete[1].word)})
     IN /\ display0.transcription.unspokenText = <<>>
        /\ display1.transcription.spokenText = SubSeq(text1, 1, split)
        /\ display1.transcription.unspokenText = SubSeq(text1, split + 1, Len(text1))

\* C5 (as claimed): handling a ready message leaves both ledgers and both
\* boundaries as they were.
ReadyPreservesLedgers ==
  [][lastOp'.op = "ready"
     => /\ transcriptions' = transcriptions
        /\ translations' = translations
        /\ transcriptionsSpeechBoundary' = transcriptionsSpeechBoundary
        /\ translationsSpeechBoundary' = translationsSpeechBoundary]_vars

ExplicitResetClearsAll ==
  (lastOp.op = "resetReady" /\ ~lastOp.ready)
  => /\ transcriptions = <<>>
     /\ translations = <<>>
     /\ AtOrigin
     /\ identifiedLanguages = <<>>
     /\ pendingTimeouts = <<>>
     /\ timers = <<>>

\* resetReady(false) found ledgers, boundaries, languages and a scheduled
\* update
ExplicitResetClearsAll_Witness ==
  /\ lastOp.op = "resetReady"
  /\ ~lastOp.ready
  /\ lastOp.pre.transcriptions
  /\ lastOp.pre.translations
  /\ lastOp.pre.boundaries
  /\ lastOp.pre.languages # <<>>
  /\ lastOp.pre.pending

\* C8: handling ready leaves the identified-language list exactly as it was
\* (as the last languages message set it) and emits no languages-changed
\* notification.
ReadyKeepsLanguages ==
  lastOp.op = "ready"
  => /\ identifiedLanguages = lastOp.pre.languages
     /\ \A i \in 1..Len(calls) : calls[i].cb # "onLanguagesChanged"

\* a ready handled while two languages were identified
ReadyKeepsLanguages_Witness ==
  /\ lastOp.op = "ready"
  /\ identifiedLanguages = <<English, Spanish>>

\* C9: a boundary update scheduled before a ready message is never applied
\* after that ready was handled: no timer that fires was armed in an
\* earlier epoch.
NoStaleBoundaryUpdate ==
  lastOp.op = "timeout" => ~lastOp.timer.stale

\* a ready handled while a boundary update was scheduled, and disarmed by it
NoStaleBoundaryUpdate_Witness ==
  /\ lastOp.op = "ready"
  /\ lastOp.pre.pending
  /\ timers = <<>>

\* C10 (as claimed): between two resets no step moves the transcription or
\* the translation boundary to a smaller position.
BoundaryMonotonic ==
  [][lastOp'.op \notin {"ready", "resetReady"}
     => /\ ~positionLessThan(transcriptionsSpeechBoundary', transcriptionsSpeechBoundary)
        /\ ~positionLessThan(translationsSpeechBoundary', translationsSpeechBoundary)]_vars

\* ------------------------------------------------------------------------
\* Properties of the ledgers under an ordered server (SpecOrdered)
\* ------------------------------------------------------------------------
StrictlyIncreasing(utterances) ==
  \A i \in 1..Len(utterances) : \A j \in 1..Len(utterances) :
    i < j => utterances[i].idx < utterances[j].idx

\* C11: when the server sends the fragments of each ledger in non-decreasing
\* utterance_idx order, the indices of the entries of each ledger are
\* strictly increasing in array position in every reachable state, so no two
\* entries of a ledger have the same index.
LedgersStrictlyIncreasing ==
  /\ StrictlyIncreasing(transcriptions)
  /\ StrictlyIncreasing(translations)

\* a merged run behind an index gap in the transcription ledger, next to a
\* translation entry
LedgersStrictlyIncreasing_Witness ==
  /\ Len(transcriptions) = 2
  /\ transcriptions[1].idx = 0
  /\ transcriptions[2].idx = 2
  /\ run.merged
  /\ Len(translations) = 1

\* ------------------------------------------------------------------------
\* Properties of the one-shot ready listeners (SpecListeners)
\* ------------------------------------------------------------------------
\* the invocations of one-shot listeners among the callbacks of the last
\* step, in order
OnceCalls(log) == SelectSeq(log, LAMBDA c : c.cb = "readyOnce")

\* listeners, each invoked once with id
InvokedWith(listeners, id) ==
  [i \in 1..Len(listeners) |-> [cb |-> "readyOnce", listener |-> listeners[i], id |-> id]]

\* C12 (as claimed): a ready message invokes every listener registered
\* since the ready message before it, once and with its id, and no other
\* step invokes a listener.
ReadyOnceFiresOnNextReady ==
  [][OnceCalls(calls') =
       IF lastOp'.op = "ready"
       THEN InvokedWith(awaiting, lastOp'.message.ready.id)
       ELSE <<>>]_vars

\* C12 (amended): a ready message invokes every listener that is registered
\* when it is handled, once and with its id, and leaves no listener
\* registered; no other step invokes a listener; destroy() leaves no
\* listener registered without invoking any.
ReadyOnceFiresWhileRegistered ==
  [][/\ OnceCalls(calls') =
          IF lastOp'.op = "ready"
          THEN InvokedWith(readyOnceCallbacks, lastOp'.message.ready.id)
          ELSE <<>>
     /\ lastOp'.op \in {"ready", "destroy"} => readyOnceCallbacks' = <<>>]_vars

\* a ready message with an id has invoked the registered listener, after the
\* ledger and the languages were filled
ReadyOnceFiresWhileRegistered_Witness ==
  /\ lastOp.op = "ready"
  /\ lastOp.message.ready.id # Null
  /\ OnceCalls(calls) = InvokedWith(<<"onceCb">>, lastOp.message.ready.id)
  /\ lastOp.pre.transcriptions
  /\ lastOp.pre.languages # <<>>


\* ------------------------------------------------------------------------
\* Properties of reset() and the outbound queue (SpecResets)
\* ------------------------------------------------------------------------
\* the step just taken handled a ready message that carries id
HandledReady(op, id) ==
  /\ op.op = "message"
  /\ parse(op.data) # Undefined
  /\ parse(op.data)[1].type = "ready"
  /\ parse(op.data)[1].ready.id = id

\* C13: a pending promise of reset() is resolved by the step that handles a
\* ready message carrying the id of its request, is rejected with
\* "Disconnected" by disconnect(), and stays pending in every other step,
\* the steps that handle a ready with another id or with none among them.
ResetSettledByItsReadyOrDisconnect ==
  [][\A i \in 1..Len(promises) :
       promises[i].state = "pending" =>
         IF HandledReady(lastOp', promises[i].id)
         THEN promises'[i].state = "resolved"
         ELSE IF lastOp'.op = "disconnect"
         THEN promises'[i].state = "rejected" /\ promises'[i].reason = "Disconnected"
         ELSE promises'[i].state = "pending"]_vars

\* one reset was acknowledged, then a ready with no id left the next reset
\* pending, and disconnect() rejected it
ResetSettledByItsReadyOrDisconnect_Witness ==
  /\ lastOp.op = "disconnect"
  /\ Len(promises) = 2
  /\ promises[1].state = "resolved"
  /\ promises[2].state = "rejected"
  /\ promises[2].reason = "Disconnected"
  /\ settled = <<ResetId(1), ResetId(2)>>


\* the ids of the promises of ps that are pending, in issue order
PendingIds(ps) ==
  LET pending == SelectSeq(ps, LAMBDA promise : promise.state = "pending")
  IN [i \in 1..Len(pending) |-> pending[i].id]

\* C14: every reset() has its own id and the correlation table holds the
\* ids of exactly the pending promises; the step that handles a ready for
\* a pending id resolves that promise and no other, so that promises are
\* resolved in the order of their ready messages, whatever the order of
\* the reset() calls.
ResetsResolveIndependently ==
  [][/\ \A i, j \in 1..Len(promises') : promises'[i].id = promises'[j].id => i = j
     /\ pendingResets' = PendingIds(promises')
     /\ \A id \in AckIds :
          HandledReady(lastOp', id) =>
            /\ settled' = IF KeyIndex(pendingResets, id) # 0
                          THEN Append(settled, id) ELSE settled
            /\ \A i \in 1..Len(promises) :
                 promises[i].id # id => promises'[i] = promises[i]]_vars

\* two resets were pending at once; the ready of the second came first and
\* left the first pending, which its own ready resolved afterwards
ResetsResolveIndependently_Witness ==
  /\ settled = <<ResetId(2), ResetId(1)>>
  /\ \A i \in 1..Len(promises) : promises[i].state = "resolved"
  /\ HandledReady(lastOp, ResetId(1))


\* the serialized request of the n-th reset()
Request(n) == stringify(ResetMessage(ResetId(n)))

\* how many elements of seq are x
Count(seq, x) == Cardinality({i \in 1..Len(seq) : seq[i] = x})

\* the messages dc.send was given, in order
SentData == [i \in 1..Len(sent) |-> sent[i].data]

\* queue as dc.send of channel c is given it
OnChannel(queue, c) == [i \in 1..Len(queue) |-> [channel |-> c, data |-> queue[i]]]

\* C15: a message for which no open data channel is at hand goes to the end
\* of the queue; the open event of a channel sends the queue on that
\* channel in enqueue order and empties it; every request made so far is
\* in exactly one place, once: sent, queued, or discarded by disconnect(),
\* and the promise of a discarded request is rejected with "Disconnected".
QueueDrainedOnceInOrder ==
  [][/\ lastOp'.op = "open" =>
          /\ sent' = sent \o OnChannel(messageQueue, lastOp'.c)
          /\ messageQueue' = <<>>
     /\ lastOp'.op = "reset" =>
          IF dataChannel # Undefined /\ connects[dataChannel[1]].channel = "open"
          THEN /\ sent' = Append(sent, [channel |-> dataChannel[1],
                                        data |-> Request(resetIdCounter')])
               /\ messageQueue' = messageQueue
          ELSE /\ sent' = sent
               /\ messageQueue' = Append(messageQueue, Request(resetIdCounter'))
     /\ lastOp'.op = "disconnect" =>
          /\ discarded' = discarded \o messageQueue
          /\ messageQueue' = <<>>
          /\ sent' = sent
     /\ lastOp'.op \notin {"open", "reset", "disconnect"} =>
          UNCHANGED <<sent, messageQueue, discarded>>
     /\ \A n \in 1..resetIdCounter' :
          /\ Count(SentData', Request(n)) + Count(messageQueue', Request(n))
               + Count(discarded', Request(n)) = 1
          /\ Count(discarded', Request(n)) = 1 =>
               /\ promises'[n].state = "rejected"
               /\ promises'[n].reason = "Disconnected"]_vars

\* two resets made before the channel was open were sent by its open event,
\* in the order they were made
QueueDrainedOnceInOrder_Witness ==
  /\ lastOp.op = "open"
  /\ SentData = <<Request(1), Request(2)>>
  /\ messageQueue = <<>>


\* ------------------------------------------------------------------------
\* Properties of disconnect() (SpecTeardown)
\* ------------------------------------------------------------------------
\* C16: when disconnect() returns, whatever the state it was called in,
\* every reset promise that was pending is rejected and the correlation
\* table is empty, the outbound queue is empty, connectionState is
\* "disconnected", sessionId and error are null, the peer connection, data
\* channel, stream and track handles are null, both ledgers are empty and
\* no boundary update is scheduled.
DisconnectReleasesEverything ==
  [][lastOp'.op = "disconnect" =>
       /\ \A i \in 1..Len(promises) :
            promises[i].state = "pending" => promises'[i].state = "rejected"
       /\ pendingResets' = <<>>
       /\ messageQueue' = <<>>
       /\ connectionState' = "disconnected"
       /\ sessionId' = Null
       /\ error' = Null
       /\ peerConnection' = Undefined
       /\ dataChannel' = Undefined
       /\ localStream' = Undefined
       /\ audioTrack' = Undefined
       /\ transcriptions' = <<>>
       /\ translations' = <<>>
       /\ pendingTimeouts' = <<>>
       /\ timers' = <<>>]_vars

\* disconnect() was called in a session that had a session id, a captured
\* microphone, an utterance in the ledger, a boundary update scheduled, a
\* reset pending and a request in the queue
DisconnectReleasesEverything_Witness ==
  /\ lastOp.op = "disconnect"
  /\ lastOp.pre.transcriptions
  /\ lastOp.pre.pending
  /\ \E i \in 1..Len(promises) : promises[i].state = "rejected"
  /\ discarded # <<>>
  /\ \E c \in 1..Len(connects) :
       /\ ~connects[c].supplied
       /\ connects[c].negotiation = "done"
       /\ connects[c].connectionState = "closed"
       /\ c \notin liveTracks
  /\ emitted = <<[event |-> "connectionState", state |-> "disconnected"]>>


\* ------------------------------------------------------------------------
\* Properties of disconnect() called again (SpecIdempotent)
\* ------------------------------------------------------------------------
\* the fields of the engine other than resetTime
engineVarsButResetTime ==
  <<transcriptions, translations, transcriptionsSpeechBoundary,
    translationsSpeechBoundary, identifiedLanguages, pendingTimeouts,
    readyOnceCallbacks>>

\* C17 (as claimed): disconnect() throws nothing and leaves connectionState
\* "disconnected", also on a client that never connected; called a second
\* time with no other call in between, it changes no field of the client or
\* of the engine and notifies no listener.
DisconnectTwiceChangesNothing ==
  [][lastOp'.op = "disconnect" =>
       /\ lastOp'.thrown = Null
       /\ connectionState' = "disconnected"
       /\ lastOp'.after = "disconnect" =>
            /\ UNCHANGED <<clientVars, engineVars, timers>>
            /\ emitted' = <<>>]_vars

\* C17 (amended): as above, except that the second call sets the engine's
\* resetTime to the time of the call; every other field of the client and
\* of the engine is unchanged and no listener is notified.
DisconnectTwiceChangesOnlyResetTime ==
  [][lastOp'.op = "disconnect" =>
       /\ lastOp'.thrown = Null
       /\ connectionState' = "disconnected"
       /\ lastOp'.after = "disconnect" =>
            /\ UNCHANGED <<clientVars, engineVarsButResetTime, timers>>
            /\ resetTime' = now
            /\ emitted' = <<>>]_vars

\* disconnect() ended a session, time passed, and disconnect() was called
\* again
DisconnectTwiceChangesOnlyResetTime_Witness ==
  /\ lastOp.op = "disconnect"
  /\ lastOp.after = "disconnect"
  /\ resetTime = StartNow + MsPerSecond
  /\ \E c \in 1..Len(connects) : connects[c].connectionState = "closed"
  /\ \E i \in 1..Len(promises) : promises[i].state = "rejected"


\* ------------------------------------------------------------------------
\* Properties of connect() (SpecConnect)
\* ------------------------------------------------------------------------
\* the errors connect() rejects with on its failure paths: microphone,
\* credentials, handshake status, transport
ConnectFailures ==
  {"Could not access microphone. Please check permissions.",
   "Missing credentials: provide apiKey or accessToken.",
   "Disconnected from server."}
    \cup {StatusError(status) : status \in Statuses \ {200}}

\* the connect() calls whose promise the step just taken rejected with one
\* of those errors
FailedNow ==
  {c \in 1..Len(connects) :
     /\ connects[c].promise = "pending"
     /\ connects'[c].promise = "rejected"
     /\ connects'[c].reason \in ConnectFailures}

\* C18 (as claimed): when the promise of connect() is rejected on one of its
\* failure paths, connectionState is "disconnected" again, the peer
\* connection and data channel handles are released, and a microphone track
\* the call captured is stopped.
FailedConnectReleasesEverything ==
  [][\A c \in FailedNow :
       /\ connectionState' = "disconnected"
       /\ peerConnection' = Undefined
       /\ dataChannel' = Undefined
       /\ ~connects[c].supplied => c \notin liveTracks']_vars


\* C19 (as claimed): the promise of connect() is resolved only when the
\* remote audio track has arrived and the peer connection has reached
\* "connected".
ConnectResolvesOnlyWhenConnected ==
  [][\A c \in 1..Len(connects) :
       connects[c].promise = "pending" /\ connects'[c].promise = "resolved" =>
         /\ connects'[c].translatedAudio
         /\ connects'[c].wasConnected]_vars

\* C20: connect() called while peerConnection is set throws "Already
\* connected. Call disconnect() first." and changes nothing: no field of
\* the client or of the engine, no browser object, and no listener is
\* notified.
ConnectWhileConnectedChangesNothing ==
  [][lastOp'.op = "connect" /\ peerConnection # Undefined =>
       /\ lastOp'.thrown = "Already connected. Call disconnect() first."
       /\ UNCHANGED <<clientVars, browserVars, engineVars, timers>>
       /\ emitted' = <<>>
       /\ calls' = <<>>]_vars

\* connect() was refused in a session whose handshake had failed: the
\* error, the status and the handles are as the failed attempt left them
ConnectWhileConnectedChangesNothing_Witness ==
  /\ lastOp.op = "connect"
  /\ lastOp.thrown = "Already connected. Call disconnect() first."
  /\ error = StatusError(401)
  /\ connectionState = "connecting"
  /\ peerConnection = Some(1)
  /\ dataChannel = Some(1)


\* the error events among the notifications of the step just taken
ErrorEvents(log) == SelectSeq(log, LAMBDA e : e.event = "error")

\* C21 (as claimed): when the promise of connect() is rejected on one of
\* its failure paths, the error property holds the message the promise was
\* rejected with and the error listeners were notified of it exactly once.
ConnectFailureReportedOnce ==
  [][\A c \in FailedNow :
       /\ error' = connects'[c].reason
       /\ ErrorEvents(emitted') = <<[event |-> "error", error |-> connects'[c].reason]>>]_vars


\* ------------------------------------------------------------------------
\* Properties of the connection status (SpecStatus)
\* ------------------------------------------------------------------------
\* the status notifications among the notifications of the step just taken
StatusEvents(log) == SelectSeq(log, LAMBDA e : e.event = "connectionState")

\* C22: a step that changes connectionState notifies the status listeners
\* once, with the new value; a step that leaves it as it was notifies them
\* not at all, whatever the transport signalled or the application called.
StatusNotifiedOncePerChange ==
  [][StatusEvents(emitted') =
       IF connectionState' # connectionState
       THEN <<[event |-> "connectionState", state |-> connectionState']>>
       ELSE <<>>]_vars

\* the transport had signalled a state that maps to "disconnected"; the
\* browser then reported the peer closed and no listener was notified again
StatusNotifiedOncePerChange_Witness ==
  /\ lastOp.op = "connectionstatechange"
  /\ lastOp.state = "closed"
  /\ connectionState = "disconnected"
  /\ emitted = <<>>


\* ------------------------------------------------------------------------
\* Properties of destroy() (SpecDestroy)
\* ------------------------------------------------------------------------
\* C23: no timer that fires was armed before a destroy() (or a ready), and
\* a ready message invokes the one-shot listeners registered since the last
\* ready except those registered before the last destroy().
NothingSurvivesDestroy ==
  [][/\ lastOp'.op = "timeout" => ~lastOp'.timer.stale
     /\ lastOp'.op = "ready" =>
          OnceCalls(calls') =
            InvokedWith(SubSeq(awaiting, torn + 1, Len(awaiting)),
                        lastOp'.message.ready.id)]_vars

\* destroy() called while a boundary update was scheduled and a one-shot
\* listener was registered: no timer is armed and no listener registered
NothingSurvivesDestroy_Witness ==
  /\ lastOp.op = "destroy"
  /\ lastOp.pre.pending
  /\ torn > 0
  /\ timers = <<>>
  /\ readyOnceCallbacks = <<>>


\* C24: a speech_delimiter message handled right after destroy() schedules
\* nothing: no timeout handle is recorded and no timer is armed.
DelimiterAfterDestroyIsNoOp ==
  [][lastOp.op = "destroy" /\ lastOp'.op = "speech_delimiter" =>
       /\ pendingTimeouts' = <<>>
       /\ timers' = <<>>]_vars


\* ------------------------------------------------------------------------
\* Properties of getUtteranceDisplay (SpecOrdered, Spec)
\* ------------------------------------------------------------------------
\* the indices getUtteranceDisplay is asked for: every array position the
\* ledgers can have, one before and one past
ProbeIndices == (-1)..(MaxEntries + 1)

\* no transcription entry at array index i and no translation entry with
\* server index i
NoDataAt(i) ==
  /\ ~(i >= 0 /\ i < Len(transcriptions))
  /\ \A j \in 1..Len(translations) : translations[j].idx # i

EmptyStreamDisplay ==
  [spokenText |-> <<>>, unspokenText |-> <<>>, complete |-> <<>>, partial |-> <<>>]

\* C25: getUtteranceDisplay(i) for an array index with no data returns
\* empty strings and empty lists on both sides.
NoDataGivesEmptyDisplay ==
  \A i \in ProbeIndices :
    NoDataAt(i) =>
      getUtteranceDisplay(Current, i) =
        [transcription |-> EmptyStreamDisplay, translation |-> EmptyStreamDisplay]

\* both ledgers hold words and the array index just past the transcription
\* ledger has no data
NoDataGivesEmptyDisplay_Witness ==
  /\ transcriptions # <<>>
  /\ translations # <<>>
  /\ transcriptions[Len(transcriptions)].complete # <<>>
  /\ NoDataAt(Len(transcriptions))
  /\ getUtteranceDisplay(Current, Len(transcriptions)).translation = EmptyStreamDisplay


\* ------------------------------------------------------------------------
\* Properties of the subscriptions (SpecSubscriptions)
\* ------------------------------------------------------------------------
\* the events of each kind in the step that led to the state, as the
\* callbacks of the method are given them
EventsFor(method) ==
  CASE method = "onConnectionStateChange" -> StatusEvents(emitted)
    [] method = "onError" -> ErrorEvents(emitted)
    [] method = "onUtterance" ->
         LET log == SelectSeq(calls, LAMBDA c : c.cb = "onUtteranceChanged")
         IN [i \in 1..Len(log) |-> [event |-> "utterance",
                                    utterance |-> log[i].utterance,
                                    index |-> log[i].index]]
    [] method = "onLanguages" ->
         LET log == SelectSeq(calls, LAMBDA c : c.cb = "onLanguagesChanged")
         IN [i \in 1..Len(log) |-> [event |-> "languages", languages |-> log[i].languages]]

EventNames ==
  [onUtterance |-> "utterance", onLanguages |-> "languages",
   onConnectionStateChange |-> "connectionState", onError |-> "error"]

\* what callback was called with in the step that led to the state, as a
\* callback of method
ReceivedBy(method, callback) ==
  LET log == SelectSeq(invoked, LAMBDA e : /\ e.callback = callback
                                           /\ e.event.event = EventNames[method])
  IN [i \in 1..Len(log) |-> log[i].event]

\* C26: in every step, a callback whose unsubscribe handle was called (and
\* that was not subscribed again) is not invoked, and every callback that is
\* subscribed is invoked once for each event of its method, in order.
UnsubscribedNeverInvoked ==
  [][\A method \in Methods, callback \in Callbacks :
       /\ <<method, callback>> \in unsubscribed =>
            ReceivedBy(method, callback)' = <<>>
       /\ <<method, callback>> \in subscribed =>
            ReceivedBy(method, callback)' = EventsFor(method)']_vars

\* an event has reached a callback and not the other callback, subscribed
\* with the same method before it and unsubscribed since
UnsubscribedNeverInvoked_Witness ==
  \E method \in Methods :
    /\ <<method, "first">> \in unsubscribed
    /\ <<method, "second">> \in subscribed
    /\ ReceivedBy(method, "second") # <<>>
    /\ ReceivedBy(method, "first") = <<>>
    /\ EventsFor(method) # <<>>


\* ------------------------------------------------------------------------
\* Properties of the boundary update (SpecBoundary, SpecGaps)
\* ------------------------------------------------------------------------
\* a boundary as a delimiter target gives it
BoundaryOf(target) ==
  [utteranceIdx |-> target.utterance_idx,
   wordIdx |-> target.word_idx,
   charIdx |-> target.char_idx]

\* the array positions of the transcription ledger from lo to hi, ascending
RECURSIVE PositionsBetween(_, _)
PositionsBetween(lo, hi) ==
  IF lo > hi \/ lo >= Len(transcriptions) THEN <<>>
  ELSE <<lo>> \o PositionsBetween(lo + 1, hi)

\* what the engine's listener is told of the array positions, each with its
\* display in the engine state s
NotificationsFor(s, positions) ==
  [i \in 1..Len(positions) |->
     [cb |-> "onUtteranceChanged",
      utterance |-> getUtteranceDisplay(s, positions[i]),
      index |-> positions[i]]]

BoundaryUpdateNotifiesOnlyRange ==
  [][lastOp'.op = "timeout" =>
       LET idxs == {transcriptionsSpeechBoundary.utteranceIdx,
                    translationsSpeechBoundary.utteranceIdx,
                    lastOp'.timer.transcription.utterance_idx,
                    lastOp'.timer.translation.utterance_idx}
       IN \A i \in 1..Len(calls') :
            /\ calls'[i].index < Len(transcriptions)
            /\ transcriptions[calls'[i].index + 1].idx >= Min(idxs)
            /\ transcriptions[calls'[i].index + 1].idx <= Max(idxs)]_vars


\* ------------------------------------------------------------------------
\* Properties of the translation fragments (SpecFragments)
\* ------------------------------------------------------------------------
\* C29: a translation fragment with non-empty complete emits exactly one
\* utterance notification: for the array position of the transcription
\* entry with its utterance_idx if there is one, and otherwise for
\* utterance_idx itself as the array position.
TranslationAlwaysNotifies ==
  [][(/\ lastOp'.op = "translation"
      /\ lastOp'.message.translation.complete # <<>>) =>
       LET utteranceIdx == lastOp'.message.translation.utterance_idx
           arrayIdx == findArrayIndexByUtteranceIdx(transcriptions, utteranceIdx)
       IN /\ Len(calls') = 1
          /\ calls'[1].cb = "onUtteranceChanged"
          /\ calls'[1].index = IF arrayIdx # -1 THEN arrayIdx ELSE utteranceIdx]_vars


\* ------------------------------------------------------------------------
\* Properties of the spoken and unspoken text (SpecBoundary)
\* ------------------------------------------------------------------------
\* the characters of a list of words, each with its position, the first
\* word having word index wordIdx
RECURSIVE CharactersOf(_, _)
CharactersOf(words, wordIdx) ==
  IF words = <<>> THEN <<>>
  ELSE [c \in 1..Len(Head(words).word) |->
          [wordIdx |-> wordIdx, charIdx |-> c - 1, char |-> Head(words).word[c]]]
       \o CharactersOf(Tail(words), wordIdx + 1)

\* (utteranceIdx, wordIdx, charIdx) is lexicographically before boundary
Before(utteranceIdx, wordIdx, charIdx, boundary) ==
  \/ utteranceIdx < boundary.utteranceIdx
  \/ /\ utteranceIdx = boundary.utteranceIdx
     /\ \/ wordIdx < boundary.wordIdx
        \/ wordIdx = boundary.wordIdx /\ charIdx < boundary.charIdx

\* the characters of utterance, complete then partial, that are before the
\* boundary (spoken) or not (~spoken), as a string
TextOf(utterance, utteranceIdx, boundary, spoken) ==
  LET all == CharactersOf(utterance.complete \o utterance.partial, 0)
      kept == SelectSeq(all, LAMBDA p :
                Before(utteranceIdx, p.wordIdx, p.charIdx, boundary) <=> spoken)
  IN [i \in 1..Len(kept) |-> kept[i].char]

DelimiterAppliedSynchronously ==
  [][lastOp'.op = "speech_delimiter" =>
       /\ transcriptionsSpeechBoundary' =
            BoundaryOf(lastOp'.message.speech_delimiter.transcription)
       /\ translationsSpeechBoundary' =
            BoundaryOf(lastOp'.message.speech_delimiter.translation)
       /\ pendingTimeouts' = pendingTimeouts
       /\ timers' = timers]_vars


\* ------------------------------------------------------------------------
\* Properties of the inbound messages (SpecMalformed)
\* ------------------------------------------------------------------------
\* C32: a data-channel message that fails JSON or schema parsing changes no
\* field of the engine or of the client, settles no promise, sends nothing,
\* notifies no listener and arms no timer; the state a later message is
\* handled in is the state before it.
MalformedMessageSwallowed ==
  [][(lastOp'.op = "message" /\ parse(lastOp'.data) = Undefined) =>
       /\ UNCHANGED <<engineVars, timers, clientVars, browserVars>>
       /\ UNCHANGED <<settled, sent, discarded, run, awaiting, torn>>
       /\ calls' = <<>>
       /\ emitted' = <<>>
       /\ invoked' = <<>>]_vars

\* malformed data resembling the acknowledgement of a pending reset has
\* arrived while the ledger holds words, and the reset is still pending
MalformedMessageSwallowed_Witness ==
  /\ lastOp.op = "message"
  /\ parse(lastOp.data) = Undefined
  /\ lastOp.data.value.type = "ready"
  /\ transcriptions # <<>>
  /\ \E i \in 1..Len(pendingResets) : pendingResets[i] = lastOp.data.value.ready.id


\* ------------------------------------------------------------------------
\* Properties of the connection status (SpecTransitions)
\* ------------------------------------------------------------------------
\* C33: connectionState changes only from disconnected to connecting in a
\* connect() call, from connecting to connected when the transport signals
\* connected, and from any value to disconnected.
StatusFollowsTransitions ==
  [][connectionState' # connectionState =>
       \/ /\ connectionState = "disconnected"
          /\ connectionState' = "connecting"
          /\ lastOp'.op = "connect"
       \/ /\ connectionState = "connecting"
          /\ connectionState' = "connected"
          /\ lastOp'.op = "connectionstatechange"
          /\ lastOp'.state = "connected"
       \/ connectionState' = "disconnected"]_vars



\* ------------------------------------------------------------------------
\* The two texts of a display side make up the utterance (SpecDivided)
\* ------------------------------------------------------------------------
\* Ordered fragments of the word "world" and boundary updates that are due
\* at once and arrive one at a time, each after the one before it was
\* applied.
LoneDelimiter ==
  /\ pendingTimeouts = <<>>
  /\ PromptDelimiter

NextDivided ==
  \/ BoundaryTranscription
  \/ BoundaryTranslation
  \/ LoneDelimiter
  \/ Timeout
  \/ ReceiveReady

SpecDivided == Init /\ [][NextDivided]_vars

\* every boundary up to one past the ledger, the word list and the longest
\* word of the fragments
BoundaryValues ==
  [utteranceIdx : 0..MaxEntries, wordIdx : 0..MaxWords, charIdx : 0..Len(World.word)]

\* spokenText followed by unspokenText is the text of the words of utterance
SideIsWholeText(side, utterance) ==
  side.spokenText \o side.unspokenText = TextOfWords(utterance.complete \o utterance.partial)

ResetSettledAtMostOnce ==
  [][/\ \A i \in 1..Len(promises) :
          promises[i].state # "pending" => promises'[i] = promises[i]
     /\ \A i \in 1..Len(promises') :
          promises'[i].state # "pending" => KeyIndex(pendingResets', promises'[i].id) = 0
     /\ \A i, j \in 1..Len(settled') : settled'[i] = settled'[j] => i = j
     /\ \A id \in AckIds :
          (HandledReady(lastOp', id) /\ KeyIndex(pendingResets, id) = 0) =>
            UNCHANGED <<promises, pendingResets, settled>>]_vars

\* the first reset was resolved by its ready and the second rejected by
\* disconnect(); in the next session a ready with the id of the second
\* arrived
ResetSettledAtMostOnce_Witness ==
  /\ HandledReady(lastOp, ResetId(2))
  /\ Len(promises) >= 2
  /\ promises[1].state = "resolved"
  /\ promises[2].state = "rejected"
  /\ settled = <<ResetId(1), ResetId(2)>>



\* ------------------------------------------------------------------------
\* reset() clears the engine when it is called (SpecClear)
\* ------------------------------------------------------------------------
\* One session in which the server sends fragments of utterance 0, the
\* languages, boundary updates that are due at once and acknowledgements,
\* and the application calls reset() at any moment.
ClearEvents ==
  {Wire(message) : message \in
     ForUtterance0(TranscriptionMessages({<<World>>}, {<<>>}), "transcription")
       \cup ForUtterance0(TranslationMessages({<<World>>}, {<<>>}), "translation")
       \cup {m \in LanguagesMessages : Len(m.languages.languages) = 1}
       \cup {m \in SpeechDelimiterMessages :
               /\ m.speech_delimiter.time = Min(DelimiterTimes)
               /\ m.speech_delimiter.transcription # Delimiter(0, 0, 0)
               /\ m.speech_delimiter.translation # Delimiter(0, 0, 0)}
       \cup {[type |-> "ready", ready |-> [id |-> id]] : id \in AckIds}}

ClearMessage == ChannelMessage(ClearEvents)

NextClear ==
  \/ ConnectSupplied
  \/ NegotiationNeeded
  \/ OfferReady
  \/ FetchOk
  \/ ChannelOpen
  \/ ClearMessage
  \/ Timeout
  \/ ResetCall

SpecClear == Init /\ [][NextClear]_vars

\* both ledgers are empty, both boundaries are at the origin and no boundary
\* update is scheduled
EngineCleared(s) ==
  /\ s.transcriptions = <<>>
  /\ s.translations = <<>>
  /\ s.transcriptionsSpeechBoundary = ZERO_POSITION
  /\ s.translationsSpeechBoundary = ZERO_POSITION
  /\ s.pendingTimeouts = <<>>
  /\ NextDue(s.timers) = {}

\* the step just taken handled a fragment of kind type
HandledFragment(op, type) ==
  /\ op.op = "message"
  /\ parse(op.data) # Undefined
  /\ parse(op.data)[1].type = type

InProgress(cs) ==
  {c \in 1..Len(cs) :
     \/ cs[c].stage = "getUserMedia"
     \/ cs[c].stage = "wired" /\ cs[c].connectionState # "closed"}

\* C37: a connect() called while an earlier connect() is in progress, be it
\* still waiting for the microphone, throws "Already connected. Call
\* disconnect() first.", so that at most one attempt or session of a client
\* is live and no two open peer connections exist.
OneAttemptPerClient ==
  [][/\ (lastOp'.op = "connect" /\ InProgress(connects) # {}) =>
          lastOp'.thrown = "Already connected. Call disconnect() first."
     /\ Cardinality(InProgress(connects')) <= 1]_vars



\* no session id, status "disconnected" and no transport or audio handle:
\* what disconnect() leaves of a session
Released ==
  /\ sessionId = Null
  /\ connectionState = "disconnected"
  /\ peerConnection = Undefined
  /\ dataChannel = Undefined
  /\ localStream = Undefined
  /\ audioTrack = Undefined

\* C38: disconnect() leaves no session id, the status "disconnected" and no
\* handle, and from then on every step that is no connect() call, the
\* continuation of a connect() that disconnect() interrupted in the
\* microphone request or in the handshake among them, leaves them so.
StaysReleasedUntilConnect ==
  [][/\ lastOp'.op = "disconnect" => Released'
     /\ (Released /\ lastOp'.op # "connect") => Released']_vars



\* ------------------------------------------------------------------------
\* Events of a session that disconnect() released (SpecStale)
\* ------------------------------------------------------------------------
\* Sessions of an application that calls connect() again only right after
\* disconnect(): every connect() call but the latest is one that
\* disconnect() released.  The microphone is granted, the handshake
\* accepted, the transport moves, and a first fragment arrives and a reset
\* is made at any moment.
ConnectReleased ==
  /\ connects = <<>> \/ lastOp.op = "disconnect"
  /\ ConnectAny

\* the first fragment of an epoch
FirstFragment ==
  ChannelMessage(
    {Wire(m) : m \in {m \in ForUtterance0(TranscriptionMessages({<<World>>}, {<<>>}), "transcription") :
                        transcriptions = <<>>}})

\* reset() while no request is queued
ResetOnEmptyQueue ==
  /\ messageQueue = <<>>
  /\ ResetCall

NextStale ==
  \/ ConnectReleased
  \/ MicGranted
  \/ NegotiationNeeded
  \/ OfferReady
  \/ FetchOk
  \/ ChannelOpen
  \/ TransportFollows
  \/ FirstFragment
  \/ ResetOnEmptyQueue
  \/ Disconnect

SpecStale == Init /\ [][NextStale]_vars

\* the step op is an event of the peer connection or the data channel of
\* a connect() call before the latest one
StaleEvent(op, cs) ==
  IF op.op \in {"connectionstatechange", "open", "message"}
  THEN op.c < Len(cs)
  ELSE FALSE

\* C39: an event of the peer connection or the data channel of a session
\* that disconnect() released, delivered when a later connect() call has
\* been made, changes neither connectionState nor error nor the
\* peerConnection handle, sends or removes nothing of the outbound queue,
\* and changes nothing in the engine.
ReleasedHandlesHaveNoEffect ==
  [][StaleEvent(lastOp', connects) =>
       /\ UNCHANGED <<connectionState, error, peerConnection>>
       /\ UNCHANGED <<messageQueue, sent>>
       /\ UNCHANGED <<transcriptions, translations, identifiedLanguages>>
       /\ UNCHANGED <<transcriptionsSpeechBoundary, translationsSpeechBoundary>>
       /\ UNCHANGED <<pendingTimeouts, timers>>]_vars



\* ------------------------------------------------------------------------
\* Every reset() settles (SpecLive)
\* ------------------------------------------------------------------------
\* The one session of a client, with resets made before its connect() and
\* until its disconnect().  The application connects, the handshake goes
\* on to its end and the data channel opens, and the server acknowledges
\* every reset request it was sent; disconnect() may be called at any
\* moment, or never.
ConnectFirst ==
  /\ connects = <<>>
  /\ ConnectSupplied

ResetWhileConnectable ==
  /\ peerConnection # Undefined \/ connects = <<>>
  /\ ResetCall

\* the ready the server answers the n-th reset request with, once it was
\* sent and while its promise is pending
AcknowledgeRequest(n) ==
  /\ Count(SentData, Request(n)) > 0
  /\ KeyIndex(pendingResets, ResetId(n)) # 0
  /\ ChannelMessage({Wire([type |-> "ready", ready |-> [id |-> ResetId(n)]])})

NextLive ==
  \/ ConnectFirst
  \/ NegotiationNeeded
  \/ OfferReady
  \/ FetchOk
  \/ ChannelOpen
  \/ Acknowledge
  \/ ResetWhileConnectable
  \/ Disconnect

SpecLive ==
  /\ Init
  /\ [][NextLive]_vars
  /\ WF_vars(ConnectFirst)
  /\ WF_vars(NegotiationNeeded)
  /\ WF_vars(OfferReady)
  /\ WF_vars(FetchOk)
  /\ WF_vars(ChannelOpen)
  /\ \A n \in 1..MaxResets : WF_vars(AcknowledgeRequest(n))

\* the promise of the n-th reset() is pending
PendingReset(n) ==
  /\ Len(promises) >= n
  /\ promises[n].state = "pending"

\* the request of the n-th reset() is in the outbound queue
QueuedRequest(n) == Count(messageQueue, Request(n)) > 0

\* C40: when the data channel eventually opens and the server acknowledges
\* every reset request it is sent, or disconnect() is called, every promise
\* of reset() is eventually resolved or rejected, and every request placed
\* in the outbound queue eventually leaves it, sent on the data channel or
\* discarded by disconnect().
EveryResetSettles ==
  \A n \in 1..MaxResets :
    /\ PendingReset(n) ~> ~PendingReset(n)
    /\ QueuedRequest(n) ~> ~QueuedRequest(n)

\* two resets were queued before the channel was open, sent by its open
\* event and resolved by their acknowledgements, with no disconnect()
EveryResetSettles_Witness ==
  /\ lastOp.op = "message"
  /\ HandledReady(lastOp, ResetId(2))
  /\ SentData = <<Request(1), Request(2)>>
  /\ settled = <<ResetId(1), ResetId(2)>>
  /\ discarded = <<>>
  /\ Len(connects) = 1
  /\ \A i \in 1..Len(promises) : promises[i].state = "resolved"

====
